---- MODULE Spec2Model ----
(***************************************************************************)
(* TTC speed cache: the standalone collector (scripts/cache-speeds.ts).    *)
(*                                                                         *)
(* Numbers.  A speed is an integer count of 1/Unit km/h, where Unit is a   *)
(* power of ten large enough for every decimal string of the model.  A     *)
(* record's speedKmh has one decimal place and is kept in tenths of km/h.  *)
(* Strings that are parsed are sequences of one-character strings.         *)
(***************************************************************************)
EXTENDS Integers, Sequences, FiniteSets, TLC

(***************************************************************************)
(* Bounds of the model.                                                    *)
(***************************************************************************)
MaxRawLen == 3
MaxVehicles == 3
MaxTicks == 1
MaxCycles == 2
MaxRestarts == 1
MaxEpochDay == 1200
MaxRecords == 2
MaxInvocations == 2

(***************************************************************************)
(* JavaScript values.  An XML attribute is a string or is missing          *)
(* (undefined); a number is finite, an infinity or NaN; parseSpeedKmh      *)
(* returns a number or null.  A route tag is a string, ABSENT when the     *)
(* attribute is missing.                                                   *)
(***************************************************************************)
ABSENT == "<undefined>"
Undefined == [t |-> "undefined"]
Str(s) == [t |-> "string", s |-> s]
NULL == [kind |-> "null"]
NaN == [kind |-> "NaN"]
Infinity(neg) == [kind |-> "Infinity", neg |-> neg]
Num(neg, mag) == [kind |-> "finite", neg |-> neg, mag |-> mag]

Alphabet == {" ", "-", ".", "0", "5", "9", "a"}
Digits == {"0", "1", "2", "3", "4", "5", "6", "7", "8", "9"}
DigitVal == [c \in Digits |->
               CASE c = "0" -> 0 [] c = "1" -> 1 [] c = "2" -> 2 [] c = "3" -> 3
                 [] c = "4" -> 4 [] c = "5" -> 5 [] c = "6" -> 6 [] c = "7" -> 7
                 [] c = "8" -> 8 [] c = "9" -> 9]
WhiteSpace == {" "}
InfinityLiteral == <<"I", "n", "f", "i", "n", "i", "t", "y">>

RECURSIVE Pow10(_)
Pow10(k) == IF k <= 0 THEN 1 ELSE 10 * Pow10(k - 1)

\* The longest fraction a string of MaxRawLen characters can carry.
FracDigits == MaxRawLen - 1
Unit == Pow10(FracDigits)

(***************************************************************************)
(* String.prototype.trim                                                   *)
(***************************************************************************)
RECURSIVE TrimLeft(_)
TrimLeft(s) ==
    IF Len(s) > 0 /\ Head(s) \in WhiteSpace THEN TrimLeft(Tail(s)) ELSE s

RECURSIVE TrimRight(_)
TrimRight(s) ==
    IF Len(s) > 0 /\ s[Len(s)] \in WhiteSpace
    THEN TrimRight(SubSeq(s, 1, Len(s) - 1))
    ELSE s

Trim(s) == TrimRight(TrimLeft(s))

(***************************************************************************)
(* Number(string): the StrDecimalLiteral grammar, an optional sign, then   *)
(* Infinity or decimal digits with at most one point and at least one      *)
(* digit.  (Exponents and 0x/0o/0b literals need characters the model's    *)
(* alphabet does not have.)  A finite result is Num(neg, mag): the sign,   *)
(* kept apart so that -0 stays a zero, and the magnitude in 1/Unit.        *)
(***************************************************************************)
RECURSIVE DigitsValue(_)
DigitsValue(s) ==
    IF Len(s) = 0 THEN 0
    ELSE 10 * DigitsValue(SubSeq(s, 1, Len(s) - 1)) + DigitVal[s[Len(s)]]

PointPositions(s) == {i \in 1..Len(s) : s[i] = "."}

UnsignedNumber(s) ==
    IF s = InfinityLiteral THEN Infinity(FALSE)
    ELSE IF \E i \in 1..Len(s) : s[i] \notin Digits \cup {"."} THEN NaN
    ELSE IF Cardinality(PointPositions(s)) > 1 THEN NaN
    ELSE IF Len(s) - Cardinality(PointPositions(s)) = 0 THEN NaN
    ELSE LET p == IF PointPositions(s) = {} THEN Len(s) + 1
                  ELSE CHOOSE i \in PointPositions(s) : TRUE
             int == SubSeq(s, 1, p - 1)
             frac == SubSeq(s, p + 1, Len(s))
         IN  IF Len(frac) > FracDigits THEN NaN \* outside the model's strings
             ELSE Num(FALSE, DigitsValue(int \o frac) * Pow10(FracDigits - Len(frac)))

Negate(n) ==
    CASE n.kind = "NaN" -> NaN
      [] n.kind = "Infinity" -> Infinity(~n.neg)
      [] OTHER -> Num(~n.neg, n.mag)

ToNumber(s) ==
    IF Len(s) = 0 THEN Num(FALSE, 0)
    ELSE IF Head(s) = "-" THEN Negate(UnsignedNumber(Tail(s)))
    ELSE IF Head(s) = "+" THEN UnsignedNumber(Tail(s))
    ELSE UnsignedNumber(s)

IsFinite(n) == n.kind = "finite"
LessThanZero(n) == n.neg /\ n.mag > 0

(***************************************************************************)
(* parseSpeedKmh                                                           *)
(***************************************************************************)
parseSpeedKmh(value) ==
    IF value.t = "undefined" THEN NULL
    ELSE LET raw == Trim(value.s) IN
         IF Len(raw) = 0 THEN NULL
         ELSE LET n == ToNumber(raw) IN
              IF ~IsFinite(n) THEN NULL
              ELSE IF LessThanZero(n) THEN NULL
              ELSE n

(***************************************************************************)
(* The feed.  jsonData.body.vehicle is missing, one element, or an array   *)
(* of elements; an element carries the attributes @_routeTag and           *)
(* @_speedKmHr, each possibly missing.                                     *)
(***************************************************************************)
Vehicle(tag, speed) == [routeTag |-> tag, speedKmHr |-> speed]
NoVehicles == [shape |-> "missing"]
OneVehicle(v) == [shape |-> "single", item |-> v]
ManyVehicles(vs) == [shape |-> "array", items |-> vs]

asArray(value) ==
    CASE value.shape = "missing" -> <<>>
      [] value.shape = "single" -> <<value.item>>
      [] value.shape = "array" -> value.items

(***************************************************************************)
(* routeData is a plain object: a property read also finds what            *)
(* Object.prototype defines, so routeData[route] is truthy for such a      *)
(* name before anything was stored, and the += then lands on the inherited *)
(* object (undefined + n = NaN) and never becomes an own property.         *)
(*   own   : the own properties, tag -> [total_speed, total_trams]         *)
(*   order : the own keys in insertion order                               *)
(*   proto : inherited name -> "undefined" or "NaN", the total_speed and   *)
(*           total_trams of the inherited object                           *)
(***************************************************************************)
ObjectPrototypeKeys == {"constructor"}
\* The tags that are canonical array indices, with their values.
ArrayIndex == [t \in {"7", "8"} |-> IF t = "7" THEN 7 ELSE 8]

EmptyRouteData ==
    [own |-> << >>, order |-> << >>,
     proto |-> [k \in ObjectPrototypeKeys |-> "undefined"]]

\* As AccumulateVehicle, but an observation with an invalid speed is folded
\* as one of speed 0.
AccumulateVehicle_InvalidAsZero(routeData, vehicle) ==
    LET route == vehicle.routeTag
        parsed == parseSpeedKmh(vehicle.speedKmHr)
        speedKmh == IF parsed = NULL THEN Num(FALSE, 0) ELSE parsed
    IN  IF route = ABSENT \/ route = "" THEN routeData
        ELSE IF route \in DOMAIN routeData.own
        THEN [routeData EXCEPT
                !.own[route] = [total_speed |-> @.total_speed + speedKmh.mag,
                                total_trams |-> @.total_trams + 1]]
        ELSE IF route \in ObjectPrototypeKeys
        THEN [routeData EXCEPT !.proto[route] = "NaN"]
        ELSE [routeData EXCEPT
                !.own = (route :> [total_speed |-> speedKmh.mag, total_trams |-> 1]) @@ @,
                !.order = Append(@, route)]

\* for (const vehicle of vehicles) { ... }: one iteration.
AccumulateVehicle(routeData, vehicle) ==
    LET route == vehicle.routeTag
        speedKmh == parseSpeedKmh(vehicle.speedKmHr)
    IN  IF route = ABSENT \/ route = "" THEN routeData
        ELSE IF speedKmh = NULL THEN routeData
        ELSE IF route \in DOMAIN routeData.own
        THEN [routeData EXCEPT
                !.own[route] = [total_speed |-> @.total_speed + speedKmh.mag,
                                total_trams |-> @.total_trams + 1]]
        ELSE IF route \in ObjectPrototypeKeys
        THEN [routeData EXCEPT !.proto[route] = "NaN"]
        ELSE [routeData EXCEPT
                !.own = (route :> [total_speed |-> speedKmh.mag, total_trams |-> 1]) @@ @,
                !.order = Append(@, route)]

RECURSIVE AccumulateAll(_, _)
AccumulateAll(routeData, vehicles) ==
    IF Len(vehicles) = 0 THEN routeData
    ELSE AccumulateAll(AccumulateVehicle(routeData, Head(vehicles)), Tail(vehicles))

(***************************************************************************)
(* Object.entries: the array-index keys in ascending order, then the other *)
(* keys in insertion order.                                                *)
(***************************************************************************)
RECURSIVE SortedIndexKeys(_)
SortedIndexKeys(keys) ==
    IF keys = {} THEN << >>
    ELSE LET k == CHOOSE x \in keys : \A y \in keys : ArrayIndex[x] <= ArrayIndex[y]
         IN  <<k>> \o SortedIndexKeys(keys \ {k})

RECURSIVE SelectNotIn(_, _)
SelectNotIn(seq, set) ==
    IF Len(seq) = 0 THEN << >>
    ELSE (IF Head(seq) \in set THEN << >> ELSE <<Head(seq)>>)
         \o SelectNotIn(Tail(seq), set)

ObjectKeys(routeData) ==
    LET idx == DOMAIN routeData.own \cap DOMAIN ArrayIndex
    IN  SortedIndexKeys(idx) \o SelectNotIn(routeData.order, idx)

(***************************************************************************)
(* parseFloat((total_speed / total_trams).toFixed(1)), in tenths of km/h.  *)
(* toFixed rounds the binary double to the nearest tenth.  Where the       *)
(* decimal mean lies exactly halfway between two tenths the double lies on *)
(* either side of it, depending on the operands: up tells which.           *)
(***************************************************************************)
TenthUnit == Unit \div 10
IsTie(data) ==
    2 * (data.total_speed % (data.total_trams * TenthUnit))
        = data.total_trams * TenthUnit

avgSpeed(data, up) ==
    LET d == data.total_trams * TenthUnit
        q == data.total_speed \div d
        r == data.total_speed % d
    IN  IF 2 * r > d \/ (2 * r = d /\ up) THEN q + 1 ELSE q

\* As SpeedRecord, but the records of a batch are stamped apart: a
\* millisecond later for every vehicle counted.
SpeedRecord_StampedApart(nowMs, routeTag, data, up) ==
    <<nowMs + data.total_trams, routeTag, avgSpeed(data, up), data.total_trams>>

\* A SpeedRecord: [timestampMs, routeTag, speedKmh (tenths), vehicleCount].
SpeedRecord(nowMs, routeTag, data, up) ==
    <<nowMs, routeTag, avgSpeed(data, up), data.total_trams>>

RECURSIVE RecordsOf(_, _, _, _)
RecordsOf(keys, routeData, nowMs, ups) ==
    IF Len(keys) = 0 THEN << >>
    ELSE LET k == Head(keys)
             data == routeData.own[k]
         IN  (IF data.total_trams <= 0 THEN << >>
              ELSE <<SpeedRecord(nowMs, k, data, k \in ups)>>)
             \o RecordsOf(Tail(keys), routeData, nowMs, ups)

TiedRoutes(routeData) == {k \in DOMAIN routeData.own : IsTie(routeData.own[k])}

(***************************************************************************)
(* The route list.  json.body.route is normalised by asArray like the      *)
(* vehicles; an element carries @_tag and @_title, each possibly missing.  *)
(***************************************************************************)
Route(tag, title) == [tag |-> tag, title |-> title]

RECURSIVE TitlesByRouteTag(_, _)
TitlesByRouteTag(titles, routes) ==
    IF Len(routes) = 0 THEN titles
    ELSE LET tag == Head(routes).tag
             title == Head(routes).title
             next == IF tag = ABSENT \/ tag = "" THEN titles
                     ELSE IF title = ABSENT \/ title = "" THEN titles
                     ELSE (tag :> title) @@ titles
         IN  TitlesByRouteTag(next, Tail(routes))

(***************************************************************************)
(* Program constants.                                                      *)
(***************************************************************************)
FETCH_INTERVAL_MS == 60000
ROUTE_TITLES_TTL_MS == 3600000
DAY_MS == 86400000
DEFAULT_DURATION_DAYS == 30

(***************************************************************************)
(* The environment of the model: what the feed answers, how far the clock  *)
(* moves in one step, when the process is started.                         *)
(***************************************************************************)
Feeds ==
    { NoVehicles,
      ManyVehicles(<<Vehicle("8", Str(<<"9">>)),
                     Vehicle("7", Str(<<"0">>)),
                     Vehicle("constructor", Str(<<"5">>)),
                     Vehicle(ABSENT, Str(<<"5">>)),
                     Vehicle("8", Str(<<"a">>)),
                     Vehicle("7", Str(<<"5">>)),
                     Vehicle("9", Str(<<"-", "5">>))>>) }

RouteLists ==
    { [shape |-> "single", item |-> Route("7", "7-Bathurst")],
      [shape |-> "array",
       items |-> <<Route("8", "8-Broadview"), Route("7", ABSENT), Route("", "x")>>] }

LongSteps == {FETCH_INTERVAL_MS, ROUTE_TITLES_TTL_MS, DAY_MS}
\* One interval and one millisecond before midnight UTC.
StartClock == DAY_MS - FETCH_INTERVAL_MS - 1

VARIABLES
    clock,            \* Date.now(), ms
    ticks,            \* clock steps taken (bounded)
    cycles,           \* collectSample calls started (bounded)
    restarts,         \* process starts after the first (bounded)
    pc,               \* where main() is
    handler,          \* the SIGINT listener is registered
    isRunning,        \* main: isRunning
    exitCode,         \* the process exit status, -1 while it runs
    durationDays,     \* main: durationDays
    startTimeMs,      \* main: startTimeMs
    timerDue,         \* when the pending setTimeout fires
    routeTitlesCache, \* module: routeTitlesCache
    nowMs,            \* fetchCurrentSpeeds: nowMs
    routeData,        \* fetchCurrentSpeeds: routeData
    rtNow,            \* getRouteTitlesByTag: now
    titlesReturned,   \* what the last getRouteTitlesByTag call returned
    records,          \* collectSample: records
    cache,            \* collectSample: cache
    lastLoad,         \* how the last loadCache call completed
    log,              \* what the last step of the process wrote to the console
    cacheFiles,       \* speed-cache/speed-data-<date>.msgpack, by date
    routesFile,       \* speed-cache/routes.json
    response,         \* fetchCurrentSpeeds: how the vehicleLocations fetch went
    resp,             \* getRouteTitlesByTag: how the routeList fetch went
    lastSave,         \* how the last saveCache call completed
    aVehicles,        \* aggregation alone: the vehicles of one feed
    aIdx,             \* aggregation alone: vehicles folded so far
    aRouteData,       \* aggregation alone: routeData
    aRecords,         \* aggregation alone: the batch, once built
    dInstant,         \* date alone: an instant, as day and time within the day
    dToday,           \* date alone: the date part of its toISOString()
    cX,               \* codec alone: the records to save
    cFiles,           \* codec alone: the partitions
    cLoaded,          \* codec alone: how the loadCache call completed
    cPc,              \* codec alone: "save", "load" or "loaded"
    ioCall,           \* write alone: "saveCache" or "saveRoutes"
    ioOld,            \* write alone: the file's content before the call
    ioNew,            \* write alone: the content the call writes
    ioDisk,           \* write alone: the file's content now
    ioWriter,         \* write alone: where fs.writeFileSync stands
    ioSeen,           \* write alone: what another process read of the file
    hEnv,             \* endpoint: process.env and the Blob SDK of the deployment
    hClock,           \* endpoint: Date.now(), ms
    hStarted,         \* endpoint: invocations received so far
    hInv,             \* endpoint: the handler call of each function instance
    blobs,            \* endpoint: the Blob store
    qEnv,             \* schedule script: process.env
    qRuns,            \* schedule script: runs started so far (bounded)
    qPc,              \* schedule script: where main stands
    qMatching,        \* schedule script: matchingSchedules still to delete
    qExit,            \* schedule script: exit status of the run, -1 while it runs
    qSchedules        \* schedule script: the schedules QStash holds

driverVars ==
    <<clock, ticks, cycles, restarts, pc, handler, isRunning, exitCode, durationDays,
      startTimeMs, timerDue, routeTitlesCache, nowMs, routeData, rtNow, titlesReturned,
      records, cache, lastLoad, log, cacheFiles, routesFile,
      response, resp, lastSave>>
aggVars == <<aVehicles, aIdx, aRouteData, aRecords>>
dateVars == <<dInstant, dToday>>
\* What the steps of one part of the model leave alone.
codecVars == <<cX, cFiles, cLoaded, cPc>>
ioVars == <<ioCall, ioOld, ioNew, ioDisk, ioWriter, ioSeen>>
cloudVars == <<hEnv, hClock, hStarted, hInv, blobs>>
scheduleVars == <<qEnv, qRuns, qPc, qMatching, qExit, qSchedules>>
outsideDriver == <<aggVars, dateVars, codecVars, ioVars, cloudVars, scheduleVars>>
outsideAgg == <<driverVars, dateVars, codecVars, ioVars, cloudVars, scheduleVars>>
outsideDate == <<driverVars, aggVars, codecVars, ioVars, cloudVars, scheduleVars>>
outsideCodec == <<driverVars, aggVars, dateVars, ioVars, cloudVars, scheduleVars>>
outsideIo == <<driverVars, aggVars, dateVars, codecVars, cloudVars, scheduleVars>>
outsideCloud == <<driverVars, aggVars, dateVars, codecVars, ioVars, scheduleVars>>
outsideSchedule == <<driverVars, aggVars, dateVars, codecVars, ioVars, cloudVars>>
vars == <<driverVars, aggVars, dateVars, codecVars, ioVars, cloudVars, scheduleVars>>

NoCache == [isNull |-> TRUE]
NoTitles == << >>
NoFile == [state |-> "missing"]
CorruptFile == [state |-> "corrupt"]
NoLoad == [bytes |-> "none", completion |-> "none", value |-> << >>]

(***************************************************************************)
(* Date.prototype.toISOString, after ECMAScript: an instant t is given by  *)
(* Day(t) = floor(t / msPerDay) and TimeWithinDay(t) = t modulo msPerDay.  *)
(* The result is a sequence of one-character strings.                      *)
(***************************************************************************)
DigitChar == <<"0", "1", "2", "3", "4", "5", "6", "7", "8", "9">>
\* The decimal digit of n at the place of unit (1, 10, 100, 1000).
Digit(n, unit) == DigitChar[((n \div unit) % 10) + 1]

DayFromYear(y) ==
    365 * (y - 1970) + ((y - 1969) \div 4) - ((y - 1901) \div 100)
        + ((y - 1601) \div 400)
DaysInYear(y) ==
    IF y % 4 # 0 THEN 365 ELSE IF y % 100 # 0 THEN 366
    ELSE IF y % 400 # 0 THEN 365 ELSE 366
YearFromDay(day) ==
    CHOOSE y \in (1970 + (day \div 366))..(1970 + (day \div 365)) :
        DayFromYear(y) <= day /\ day < DayFromYear(y + 1)
\* InLeapYear, DayWithinYear, MonthFromDay and DateFromDay of a day, given
\* the year (and then the day within it and the leap flag) of that day.
InLeapYear(year) == IF DaysInYear(year) = 366 THEN 1 ELSE 0
DayWithinYear(day, year) == day - DayFromYear(year)
\* The first day within the year of month m (0 = January), m = 12 the end.
CommonYearMonthStart == <<0, 31, 59, 90, 120, 151, 181, 212, 243, 273, 304, 334, 365>>
MonthStart(m, leap) == CommonYearMonthStart[m + 1] + (IF m >= 2 THEN leap ELSE 0)
MonthFromDay(dayInYear, leap) ==
    CHOOSE m \in 0..11 :
        MonthStart(m, leap) <= dayInYear /\ dayInYear < MonthStart(m + 1, leap)
DateFromDay(dayInYear, month, leap) == dayInYear - MonthStart(month, leap) + 1

\* YYYY-MM-DDTHH:mm:ss.sssZ (years 0 to 9999), each field zero-padded
toISOString(day, timeInDay) ==
    LET year == YearFromDay(day)
        leap == InLeapYear(year)
        dayInYear == DayWithinYear(day, year)
        month == MonthFromDay(dayInYear, leap) + 1
        date == DateFromDay(dayInYear, month - 1, leap)
        hour == timeInDay \div 3600000
        minute == (timeInDay \div 60000) % 60
        second == (timeInDay \div 1000) % 60
        milli == timeInDay % 1000
    IN  <<Digit(year, 1000), Digit(year, 100), Digit(year, 10), Digit(year, 1), "-",
          Digit(month, 10), Digit(month, 1), "-",
          Digit(date, 10), Digit(date, 1), "T",
          Digit(hour, 10), Digit(hour, 1), ":",
          Digit(minute, 10), Digit(minute, 1), ":",
          Digit(second, 10), Digit(second, 1), ".",
          Digit(milli, 100), Digit(milli, 10), Digit(milli, 1), "Z">>

\* s.split(sep)[0]: s up to its first sep.
SplitHead(s, sep) ==
    IF \A i \in 1..Len(s) : s[i] # sep THEN s
    ELSE SubSeq(s, 1, (CHOOSE i \in 1..Len(s) :
                          s[i] = sep /\ \A j \in 1..(i - 1) : s[j] # sep) - 1)

\* As Today, but the date of the local time of Toronto (UTC-5).
Today_Local(day, timeInDay) ==
    IF timeInDay >= 5 * 3600000
    THEN SplitHead(toISOString(day, timeInDay - 5 * 3600000), "T")
    ELSE SplitHead(toISOString(day - 1, timeInDay + 19 * 3600000), "T")

\* new Date().toISOString().split('T')[0] at the instant (day, timeInDay)
Today(day, timeInDay) == SplitHead(toISOString(day, timeInDay), "T")

\* getTodaysCacheFile at clock reading t: the file is named by the UTC date.
getTodaysCacheFile(t) == Today(t \div DAY_MS, t % DAY_MS)

(***************************************************************************)
(* The MessagePack codec (msgpackr, new Packr()).  A buffer is a sequence  *)
(* of tokens, one per MessagePack item header with its payload:            *)
(*   array headers  [fmt, n]   numbers  [fmt, v]   strings  [fmt, len, s]  *)
(* A number is written in the format msgpackr chooses for its value: an    *)
(* unsigned integer in the shortest of fixint, uint8, uint16, uint32 (with *)
(* records enabled a fixint ends at 0x3f), any other number as float64.    *)
(* A speed is kept in tenths, so it is an integer when its tenths are a    *)
(* multiple of ten.                                                        *)
(***************************************************************************)
ArrayHeader(n) == [fmt |-> IF n < 16 THEN "fixarray" ELSE "array16", n |-> n]
IntegerFormat(n) ==
    IF n < 64 THEN "fixint" ELSE IF n < 256 THEN "uint8"
    ELSE IF n < 65536 THEN "uint16" ELSE "uint32"
PackInteger(n) == <<[fmt |-> IntegerFormat(n), v |-> n]>>

\* As PackTenths, but the speed is stored as a whole number of km/h.
PackTenths_Rounded(tenths) ==
    <<[fmt |-> IntegerFormat((tenths + 5) \div 10), v |-> ((tenths + 5) \div 10) * 10]>>

PackTenths(tenths) ==
    IF tenths % 10 = 0
    THEN <<[fmt |-> IntegerFormat(tenths \div 10), v |-> tenths]>>
    ELSE <<[fmt |-> "float64", v |-> tenths]>>
PackString(str) ==
    <<[fmt |-> IF Len(str) < 32 THEN "fixstr" ELSE "str8", len |-> Len(str), s |-> str]>>
PackRecord(r) ==
    <<ArrayHeader(4)>> \o PackInteger(r[1]) \o PackString(r[2])
        \o PackTenths(r[3]) \o PackInteger(r[4])
RECURSIVE PackRecords(_)
PackRecords(recs) ==
    IF Len(recs) = 0 THEN << >>
    ELSE PackRecord(Head(recs)) \o PackRecords(Tail(recs))
\* packr.pack(records)
pack(recs) == <<ArrayHeader(Len(recs))>> \o PackRecords(recs)

\* packr.unpack(buffer): reads one item and fails when the buffer ends
\* early or goes on after the item.
ReadFailed == [ok |-> FALSE, value |-> << >>, rest |-> << >>]
RECURSIVE ReadItem(_)
RECURSIVE ReadItems(_, _)
ReadItem(toks) ==
    IF Len(toks) = 0 THEN ReadFailed
    ELSE LET t == Head(toks) IN
         IF t.fmt \in {"fixarray", "array16"} THEN ReadItems(Tail(toks), t.n)
         ELSE IF t.fmt \in {"fixstr", "str8"}
         THEN [ok |-> TRUE, value |-> t.s, rest |-> Tail(toks)]
         ELSE [ok |-> TRUE, value |-> t.v, rest |-> Tail(toks)]
ReadItems(toks, n) ==
    IF n = 0 THEN [ok |-> TRUE, value |-> << >>, rest |-> toks]
    ELSE LET first == ReadItem(toks) IN
         IF ~first.ok THEN ReadFailed
         ELSE LET more == ReadItems(first.rest, n - 1) IN
              IF ~more.ok THEN ReadFailed
              ELSE [ok |-> TRUE, value |-> <<first.value>> \o more.value,
                    rest |-> more.rest]
unpack(buffer) ==
    LET item == ReadItem(buffer) IN
    IF item.ok /\ item.rest = << >>
    THEN [ok |-> TRUE, value |-> item.value]
    ELSE [ok |-> FALSE, value |-> << >>]

(***************************************************************************)
(* loadCache at time t.  readOk: readFileSync succeeds.  The result tells  *)
(* what the bytes were, how the call completed and what it returned.       *)
(***************************************************************************)
\* As loadCache, but an error of readFileSync or unpack is not caught.
loadCache_Uncaught(files, t, readOk) ==
    LET file == getTodaysCacheFile(t) IN
    IF file \notin DOMAIN files
    THEN [bytes |-> "missing", completion |-> "return", value |-> << >>]
    ELSE IF ~readOk
    THEN [bytes |-> "unreadable", completion |-> "throw", value |-> << >>]
    ELSE IF files[file].state = "corrupt"
    THEN [bytes |-> "corrupt", completion |-> "throw", value |-> << >>]
    ELSE LET unpacked == unpack(files[file].bytes) IN
         IF ~unpacked.ok
         THEN [bytes |-> "corrupt", completion |-> "throw", value |-> << >>]
         ELSE [bytes |-> "ok", completion |-> "return", value |-> unpacked.value]

loadCache(files, t, readOk) ==
    LET file == getTodaysCacheFile(t) IN
    IF file \notin DOMAIN files
    THEN [bytes |-> "missing", completion |-> "return", value |-> << >>]
    ELSE IF ~readOk
    THEN [bytes |-> "unreadable", completion |-> "return", value |-> << >>]
    ELSE IF files[file].state = "corrupt"
    THEN [bytes |-> "corrupt", completion |-> "return", value |-> << >>]
    ELSE LET unpacked == unpack(files[file].bytes) IN
         IF ~unpacked.ok
         THEN [bytes |-> "corrupt", completion |-> "return", value |-> << >>]
         ELSE [bytes |-> "ok", completion |-> "return", value |-> unpacked.value]

\* What the catch of loadCache writes: console.error('Error loading cache,
\* starting fresh:', error)
LoadLog(ld) ==
    IF ld.bytes \in {"unreadable", "corrupt"}
    THEN {"Error loading cache, starting fresh"} ELSE {}

\* loadRoutes: {} when the file is missing or cannot be read or parsed.
loadRoutes(file, readOk) ==
    IF file.state = "ok" /\ readOk THEN file.titles ELSE NoTitles

(***************************************************************************)
(* parseInt(string, 10): leading white space is skipped, then an optional  *)
(* sign, then the longest run of decimal digits; what follows the digits   *)
(* is ignored, and without a digit the result is NaN.                      *)
(***************************************************************************)
Whole(n) == [kind |-> "int", value |-> n]

RECURSIVE LeadingDigits(_)
LeadingDigits(s) ==
    IF Len(s) > 0 /\ Head(s) \in Digits
    THEN <<Head(s)>> \o LeadingDigits(Tail(s))
    ELSE << >>

UnsignedInt(s) ==
    IF Len(LeadingDigits(s)) = 0 THEN NaN ELSE Whole(DigitsValue(LeadingDigits(s)))

parseInt(string) ==
    LET s == TrimLeft(string) IN
    IF Len(s) > 0 /\ Head(s) = "-"
    THEN LET n == UnsignedInt(Tail(s)) IN
         IF n = NaN THEN NaN ELSE Whole(0 - n.value)
    ELSE IF Len(s) > 0 /\ Head(s) = "+" THEN UnsignedInt(Tail(s))
    ELSE UnsignedInt(s)

\* process.argv.slice(2): what the script may be started with, and what the
\* collector is run with.
Argvs ==
    { << >>, <<<<"1">>>>, <<<<"0">>>>, <<<<"-", "1">>>>, <<<<"a">>>>, <<<<"2", "a">>>>,
      <<<<"1", ".", "5">>>> }
RunArgv == <<<<"1">>>>

\* args.length > 0 ? parseInt(args[0], 10) : DEFAULT_DURATION_DAYS
DurationOf(args) ==
    IF Len(args) > 0 THEN parseInt(args[1]) ELSE Whole(DEFAULT_DURATION_DAYS)
\* isNaN(durationDays) || durationDays <= 0
InvalidDuration(d) == IF d = NaN THEN TRUE ELSE d.value <= 0

(***************************************************************************)
(* Pieces of main() that several steps share.                              *)
(***************************************************************************)
\* process.exit(code)
Exit(code) == pc' = "exited" /\ exitCode' = code

\* const finalCache = loadCache(); printStats(finalCache); process.exit(0)
FinalStats(msgs) ==
    /\ \E readOk \in BOOLEAN :
          \E ld \in {loadCache(cacheFiles, clock, readOk)} :
          /\ lastLoad' = ld
          /\ log' = msgs \cup LoadLog(ld) \cup {"Cache Statistics"}
    /\ Exit(0)

\* collectSample() is called: fetchCurrentSpeeds reads the clock and sends
\* the vehicleLocations request.
BeginCycle(msgs) ==
    /\ cycles < MaxCycles
    /\ cycles' = cycles + 1
    /\ nowMs' = clock
    /\ response' = "pending"
    /\ pc' = "v_fetch"
    /\ log' = msgs \cup {"Fetching speed data"}

\* As NoDataCollected, but never true.
NoDataCollected_Never(recs) == FALSE

\* records.length === 0
NoDataCollected(recs) == Len(recs) = 0

\* fetchCurrentSpeeds builds the records and returns them to collectSample,
\* which ends the cycle when there are none.
ReturnRecords(rd, msgs) ==
    \E ups \in SUBSET TiedRoutes(rd) :
        \E recs \in {RecordsOf(ObjectKeys(rd), rd, nowMs, ups)} :
        /\ records' = recs
        /\ IF NoDataCollected(recs)
           THEN pc' = "cycle_end" /\ log' = msgs \cup {"No data fetched"}
           ELSE pc' = "load" /\ log' = msgs

\* As CachedTitles, but returning {} whatever is cached.
CachedTitles_Empty(c) == NoTitles

\* What the catch of getRouteTitlesByTag, and its !resp.ok branch, return.
CachedTitles(c) == IF c = NoCache THEN NoTitles ELSE c.titlesByRouteTag

(***************************************************************************)
(* main() up to the first await: arguments, loadCache, loadRoutes, the     *)
(* cache seeded from routes.json, printStats, then the first               *)
(* collectSample().                                                        *)
(***************************************************************************)
\* console.error('Invalid duration. Usage: ...'); process.exit(1)
UsageError ==
    /\ log' = {"Invalid duration"}
    /\ Exit(1)
    /\ UNCHANGED <<durationDays, lastLoad, routeTitlesCache, cycles, nowMs, response>>

StartWith(args) ==
    /\ pc = "init"
    /\ \E d \in {DurationOf(args)} :
          IF InvalidDuration(d)
          THEN UsageError
          ELSE /\ durationDays' = d.value
               /\ \E readOk \in BOOLEAN, routesOk \in BOOLEAN :
                     \E ld \in {loadCache(cacheFiles, clock, readOk)} :
                     LET routes == loadRoutes(routesFile, routesOk) IN
                     /\ lastLoad' = ld
                     /\ routeTitlesCache' =
                           IF DOMAIN routes # {}
                           THEN [fetchedAtMs |-> clock, titlesByRouteTag |-> routes]
                           ELSE NoCache
                     /\ BeginCycle(LoadLog(ld))
               /\ UNCHANGED exitCode
    /\ UNCHANGED <<clock, ticks, restarts, handler, isRunning, startTimeMs,
                   timerDue, routeData, rtNow, titlesReturned, records, cache,
                   cacheFiles, routesFile, resp, lastSave,
                   outsideDriver>>

Start == StartWith(RunArgv)

(***************************************************************************)
(* fetchCurrentSpeeds: the vehicleLocations response arrives.  A rejected  *)
(* fetch and a non-success status both end in the catch, which returns []. *)
(***************************************************************************)
\* As VehicleFetchFailed, but the error leaves fetchCurrentSpeeds.
VehicleFetchFailed_Rethrown ==
    /\ records' = << >>
    /\ log' = {"Fatal error"}
    /\ Exit(1)

VehicleFetchFailed ==
    /\ records' = << >>
    /\ pc' = "cycle_end"
    /\ log' = {"Error fetching speeds", "No data fetched"}
    /\ UNCHANGED <<exitCode>>

VehicleResponse ==
    /\ pc = "v_fetch"
    /\ \E outcome \in {"rejected", "not ok", "ok"} :
          /\ response' = outcome
          /\ IF outcome = "ok"
             THEN pc' = "v_text" /\ UNCHANGED <<records, log, exitCode>>
             ELSE VehicleFetchFailed
    /\ UNCHANGED <<clock, ticks, cycles, restarts, handler, isRunning, durationDays,
                   startTimeMs, timerDue, routeTitlesCache, nowMs, routeData, rtNow,
                   titlesReturned, cache, lastLoad, cacheFiles, routesFile, resp, lastSave, outsideDriver>>

(***************************************************************************)
(* getRouteTitlesByTag is called: it reads the clock, and either returns   *)
(* the cached titles or sends the routeList request.                       *)
(***************************************************************************)
IsFresh(c, now) == c # NoCache /\ now - c.fetchedAtMs < ROUTE_TITLES_TTL_MS

CallGetRouteTitles(rd) ==
    /\ rtNow' = clock
    /\ IF IsFresh(routeTitlesCache, clock)
       THEN /\ titlesReturned' = routeTitlesCache.titlesByRouteTag
            /\ ReturnRecords(rd, {})
            /\ UNCHANGED resp
       ELSE /\ resp' = "pending"
            /\ pc' = "t_fetch"
            /\ UNCHANGED <<titlesReturned, records, log>>

\* The body of the vehicleLocations response arrives (or fails to), is
\* parsed and folded into routeData; then the titles are asked for.
VehicleBody ==
    /\ pc = "v_text"
    /\ \/ /\ response' = "unreadable"
          /\ VehicleFetchFailed
          /\ UNCHANGED <<routeData, rtNow, titlesReturned, resp>>
       \/ \E feed \in Feeds :
             \E rd \in {AccumulateAll(EmptyRouteData, asArray(feed))} :
             /\ routeData' = rd
             /\ CallGetRouteTitles(rd)
             /\ UNCHANGED <<exitCode, response>>
    /\ UNCHANGED <<clock, ticks, cycles, restarts, handler, isRunning, durationDays,
                   startTimeMs, timerDue, routeTitlesCache, nowMs, cache, lastLoad,
                   cacheFiles, routesFile, lastSave, outsideDriver>>

(***************************************************************************)
(* getRouteTitlesByTag: the routeList response arrives.                    *)
(***************************************************************************)
\* As RouteListFetchFailed, but the fetch is tried again: the call stays at
\* the request.
RouteListFetchFailed_Retried ==
    /\ pc' = "t_fetch"
    /\ UNCHANGED <<titlesReturned, records, log, routeTitlesCache, routesFile>>

\* As RouteListFetchFailed, but the error leaves getRouteTitlesByTag and
\* ends in the catch of fetchCurrentSpeeds, which returns [].
RouteListFetchFailed_Escapes ==
    /\ titlesReturned' = NoTitles
    /\ records' = << >>
    /\ pc' = "cycle_end"
    /\ log' = {"Error fetching speeds", "No data fetched"}
    /\ UNCHANGED <<routeTitlesCache, routesFile>>

\* As RouteListFetchFailed, but the cache is dropped.
RouteListFetchFailed_CacheDropped ==
    /\ titlesReturned' = CachedTitles(routeTitlesCache)
    /\ ReturnRecords(routeData, {"Error fetching route titles"})
    /\ routeTitlesCache' = NoCache
    /\ UNCHANGED routesFile

RouteListFetchFailed ==
    /\ titlesReturned' = CachedTitles(routeTitlesCache)
    /\ ReturnRecords(routeData, {"Error fetching route titles"})
    /\ UNCHANGED <<routeTitlesCache, routesFile>>

TitlesResponse ==
    /\ pc = "t_fetch"
    /\ \E outcome \in {"rejected", "not ok", "ok"} :
          /\ resp' = outcome
          /\ IF outcome = "ok"
             THEN /\ pc' = "t_text"
                  /\ UNCHANGED <<titlesReturned, records, log, routeTitlesCache,
                                 routesFile>>
             ELSE RouteListFetchFailed
    /\ UNCHANGED <<clock, ticks, cycles, restarts, handler, isRunning, exitCode,
                   durationDays, startTimeMs, timerDue, nowMs, routeData, rtNow, cache,
                   lastLoad, cacheFiles, response, lastSave,
                   outsideDriver>>

\* saveRoutes(titles): "ok", or it throws with routes.json untouched
\* ("failed").
saveRoutes(file, titles, outcome) ==
    CASE outcome = "ok" -> [state |-> "ok", titles |-> titles]
      [] outcome = "failed" -> file

\* The body arrives and is parsed: the cache is replaced, then routes.json
\* is written.  A throw of saveRoutes is caught like a failed fetch, after
\* the cache was replaced.
RouteListFetched(list, outcome) ==
    \E titles \in {TitlesByRouteTag(NoTitles, asArray(list))} :
    /\ routeTitlesCache' = [fetchedAtMs |-> rtNow, titlesByRouteTag |-> titles]
    /\ routesFile' = saveRoutes(routesFile, titles, outcome)
    /\ titlesReturned' = titles
    /\ ReturnRecords(routeData,
                     IF outcome = "ok" THEN {} ELSE {"Error fetching route titles"})

TitlesBody ==
    /\ pc = "t_text"
    /\ \/ resp' = "unreadable" /\ RouteListFetchFailed
       \/ /\ UNCHANGED resp
          /\ \E list \in RouteLists, outcome \in {"ok", "failed"} :
                RouteListFetched(list, outcome)
    /\ UNCHANGED <<clock, ticks, cycles, restarts, handler, isRunning, exitCode,
                   durationDays, startTimeMs, timerDue, nowMs, routeData, rtNow, cache,
                   lastLoad, cacheFiles, response, lastSave,
                   outsideDriver>>

(***************************************************************************)
(* collectSample with a non-empty batch: loadCache, push, saveCache.  The  *)
(* two calls each derive today's file name from the clock.                 *)
(***************************************************************************)
Load ==
    /\ pc = "load"
    /\ \E readOk \in BOOLEAN :
          \E ld \in {loadCache(cacheFiles, clock, readOk)} :
          /\ lastLoad' = ld
          /\ cache' = ld.value \o records
          /\ log' = LoadLog(ld)
    /\ pc' = "save"
    /\ UNCHANGED <<clock, ticks, cycles, restarts, handler, isRunning, exitCode,
                   durationDays, startTimeMs, timerDue, routeTitlesCache, nowMs,
                   routeData, rtNow, titlesReturned, records, cacheFiles, routesFile, response, resp, lastSave, outsideDriver>>

\* saveCache(records) at time t: "ok", or mkdirSync/writeFileSync throws
\* with the file untouched ("failed") or cut short ("truncated").
saveCache(files, t, recs, outcome) ==
    LET file == getTodaysCacheFile(t) IN
    CASE outcome = "ok" -> (file :> [state |-> "ok", bytes |-> pack(recs)]) @@ files
      [] outcome = "failed" -> files
      [] outcome = "truncated" -> (file :> CorruptFile) @@ files

\* A throw of saveCache leaves collectSample and main: main().catch logs
\* the fatal error and exits with status 1.
PersistFailed ==
    /\ log' = {"Fatal error"}
    /\ Exit(1)

Save ==
    /\ pc = "save"
    /\ \E outcome \in {"ok", "failed", "truncated"} :
          /\ cacheFiles' = saveCache(cacheFiles, clock, cache, outcome)
          /\ lastSave' = IF outcome = "ok" THEN "returned" ELSE "threw"
          /\ IF outcome = "ok"
             THEN /\ pc' = "cycle_end"
                  /\ log' = {"Collected route speed records"}
                  /\ UNCHANGED exitCode
             ELSE PersistFailed
    /\ UNCHANGED <<clock, ticks, cycles, restarts, handler, isRunning, durationDays,
                   startTimeMs, timerDue, routeTitlesCache, nowMs, routeData, rtNow,
                   titlesReturned, records, cache, lastLoad, routesFile, response, resp, outsideDriver>>

(***************************************************************************)
(* main() after a collectSample() returned.  After the first one: reload   *)
(* the cache for startTimeMs, register the SIGINT listener, enter the loop *)
(* and start the timer.  After a later one: the duration check, then the   *)
(* loop condition.                                                         *)
(***************************************************************************)
StartTimer ==
    /\ timerDue' = clock + FETCH_INTERVAL_MS
    /\ pc' = "sleep"

\* The locals of the collectSample() call that returned are gone.
ForgetCycle ==
    /\ nowMs' = 0
    /\ routeData' = EmptyRouteData
    /\ rtNow' = 0
    /\ titlesReturned' = NoTitles
    /\ records' = << >>
    /\ cache' = << >>
    /\ response' = "none"
    /\ resp' = "none"
    /\ lastSave' = "none"

CycleEnd ==
    /\ pc = "cycle_end"
    /\ IF ~handler
       THEN /\ \E readOk \in BOOLEAN :
                  \E ld \in {loadCache(cacheFiles, clock, readOk)} :
                  /\ lastLoad' = ld
                  /\ startTimeMs' = IF Len(ld.value) > 0 THEN ld.value[1][1] ELSE clock
                  /\ log' = LoadLog(ld)
            /\ isRunning' = TRUE
            /\ handler' = TRUE
            /\ StartTimer
            /\ UNCHANGED exitCode
       ELSE IF (clock - startTimeMs) \div DAY_MS >= durationDays
       THEN /\ FinalStats({"Target duration reached"})
            /\ UNCHANGED <<startTimeMs, isRunning, handler, timerDue>>
       ELSE IF isRunning
       THEN /\ StartTimer
            /\ log' = {}
            /\ lastLoad' = NoLoad
            /\ UNCHANGED <<startTimeMs, isRunning, handler, exitCode>>
       ELSE /\ FinalStats({})
            /\ UNCHANGED <<startTimeMs, isRunning, handler, timerDue>>
    /\ ForgetCycle
    /\ UNCHANGED <<clock, ticks, cycles, restarts, durationDays, routeTitlesCache,
                   cacheFiles, routesFile, outsideDriver>>

\* As TimerFires, but the timer is an interval timer: once due it fires
\* whether or not the collectSample() before it has returned.
TimerFires_Interval ==
    /\ pc \in {"sleep", "v_fetch", "v_text", "t_fetch", "t_text", "load", "save"}
    /\ clock >= timerDue
    /\ IF ~isRunning
       THEN FinalStats({}) /\ UNCHANGED <<cycles, nowMs, response>>
       ELSE BeginCycle({}) /\ UNCHANGED <<exitCode, lastLoad>>
    /\ UNCHANGED <<clock, ticks, restarts, handler, isRunning, durationDays, startTimeMs,
                   timerDue, routeTitlesCache, routeData, rtNow, titlesReturned, records,
                   cache, cacheFiles, routesFile, resp, lastSave,
                   outsideDriver>>

\* The timer fires: leave the loop when the flag was cleared, else collect.
TimerFires ==
    /\ pc = "sleep"
    /\ clock >= timerDue
    /\ IF ~isRunning
       THEN FinalStats({}) /\ UNCHANGED <<cycles, nowMs, response>>
       ELSE BeginCycle({}) /\ UNCHANGED <<exitCode, lastLoad>>
    /\ UNCHANGED <<clock, ticks, restarts, handler, isRunning, durationDays, startTimeMs,
                   timerDue, routeTitlesCache, routeData, rtNow, titlesReturned, records,
                   cache, cacheFiles, routesFile, resp, lastSave,
                   outsideDriver>>

(***************************************************************************)
(* SIGINT.  With the listener registered it clears isRunning.  Before      *)
(* that the signal has its default action: the process ends at once, and a *)
(* writeFileSync it was in the middle of leaves the file cut short.        *)
(***************************************************************************)
SigintHandler ==
    /\ isRunning' = FALSE
    /\ log' = {"Stopping data collection"}
    /\ UNCHANGED <<pc, exitCode, cacheFiles>>

SigintDefault ==
    /\ Exit(130)
    /\ \/ UNCHANGED cacheFiles
       \/ /\ pc = "save"
          /\ cacheFiles' = saveCache(cacheFiles, clock, cache, "truncated")
    /\ UNCHANGED <<isRunning, log>>

Sigint ==
    /\ pc \notin {"init", "exited"}
    /\ IF handler THEN SigintHandler ELSE SigintDefault
    /\ UNCHANGED <<clock, ticks, cycles, restarts, handler, durationDays, startTimeMs,
                   timerDue, routeTitlesCache, nowMs, routeData, rtNow, titlesReturned,
                   records, cache, lastLoad, routesFile, response,
                   resp, lastSave, outsideDriver>>

\* The operator starts the script again after it ended.
Restart ==
    /\ pc = "exited"
    /\ restarts < MaxRestarts
    /\ restarts' = restarts + 1
    /\ pc' = "init"
    /\ handler' = FALSE
    /\ isRunning' = TRUE
    /\ exitCode' = -1
    /\ durationDays' = 0
    /\ startTimeMs' = 0
    /\ timerDue' = 0
    /\ routeTitlesCache' = NoCache
    /\ nowMs' = 0
    /\ routeData' = EmptyRouteData
    /\ rtNow' = 0
    /\ titlesReturned' = NoTitles
    /\ records' = << >>
    /\ cache' = << >>
    /\ lastLoad' = NoLoad
    /\ log' = {}
    /\ response' = "none"
    /\ resp' = "none"
    /\ lastSave' = "none"
    /\ UNCHANGED <<clock, ticks, cycles, cacheFiles, routesFile, outsideDriver>>

(***************************************************************************)
(* Time passes.  While the routeList request is in flight the clock moves  *)
(* in single milliseconds (a bounded number of them): that is between the  *)
(* two clock readings of a cycle and its file accesses.  A pending timer   *)
(* ends after the interval or later, by one of the long steps.             *)
(***************************************************************************)
Tick ==
    /\ \/ /\ pc = "t_fetch"
          /\ ticks < MaxTicks
          /\ ticks' = ticks + 1
          /\ clock' = clock + 1
       \/ /\ pc = "sleep"
          /\ clock < timerDue
          /\ \E d \in LongSteps : clock' = clock + d
          /\ UNCHANGED ticks
    /\ UNCHANGED <<cycles, restarts, pc, handler, isRunning, exitCode, durationDays,
                   startTimeMs, timerDue, routeTitlesCache, nowMs, routeData, rtNow,
                   titlesReturned, records, cache, lastLoad, log, cacheFiles, routesFile, response, resp, lastSave, outsideDriver>>

DriverIdle ==
    /\ clock = StartClock
    /\ ticks = 0
    /\ cycles = 0
    /\ restarts = 0
    /\ pc = "init"
    /\ handler = FALSE
    /\ isRunning = TRUE
    /\ exitCode = -1
    /\ durationDays = 0
    /\ startTimeMs = 0
    /\ timerDue = 0
    /\ routeTitlesCache = NoCache
    /\ nowMs = 0
    /\ routeData = EmptyRouteData
    /\ rtNow = 0
    /\ titlesReturned = NoTitles
    /\ records = << >>
    /\ cache = << >>
    /\ lastLoad = NoLoad
    /\ log = {}
    /\ cacheFiles = << >>
    /\ routesFile = NoFile
    /\ response = "none"
    /\ resp = "none"
    /\ lastSave = "none"

AggIdle ==
    /\ aVehicles = << >>
    /\ aIdx = 0
    /\ aRouteData = EmptyRouteData
    /\ aRecords = << >>

Next ==
    \/ Start
    \/ VehicleResponse
    \/ VehicleBody
    \/ TitlesResponse
    \/ TitlesBody
    \/ Load
    \/ Save
    \/ CycleEnd
    \/ TimerFires
    \/ Sigint
    \/ Restart
    \/ Tick

DateIdle ==
    /\ dInstant = [day |-> 0, ms |-> 0]
    /\ dToday = << >>

CodecIdle ==
    /\ cX = << >>
    /\ cFiles = << >>
    /\ cLoaded = NoLoad
    /\ cPc = "off"

NotRead == [done |-> FALSE, bytes |-> << >>]
IoIdle ==
    /\ ioCall = "none"
    /\ ioOld = << >>
    /\ ioNew = << >>
    /\ ioDisk = << >>
    /\ ioWriter = "off"
    /\ ioSeen = NotRead

NoEnv == [cronSecret |-> ABSENT, hasSigningKeys |-> FALSE, put |-> "none"]
CloudIdle ==
    /\ hEnv = NoEnv
    /\ hClock = 0
    /\ hStarted = 0
    /\ hInv = << >>
    /\ blobs = [speeds |-> {}, routes |-> {}]

NoScheduleEnv == [token |-> ABSENT, url |-> <<>>, cronSecret |-> ABSENT]
ScheduleIdle ==
    /\ qEnv = NoScheduleEnv
    /\ qRuns = 0
    /\ qPc = "idle"
    /\ qMatching = {}
    /\ qExit = -1
    /\ qSchedules = {}

Init ==
    /\ DriverIdle
    /\ ScheduleIdle
    /\ AggIdle
    /\ DateIdle
    /\ CodecIdle
    /\ IoIdle
    /\ CloudIdle

Spec == Init /\ [][Next]_vars

(***************************************************************************)
(* The aggregation of fetchCurrentSpeeds on its own: the loop over the     *)
(* vehicles of one feed, one iteration a step, then the records.           *)
(***************************************************************************)
TagSpecimens == {ABSENT, "", "7", "8", "constructor"}
SpeedSpecimens ==
    {Str(<<"-", "1">>), Str(<<"0">>), Str(<<"8", ".", "9">>), Str(<<"9", ".", "1">>)}
VehicleSpecimens == {Vehicle(t, v) : t \in TagSpecimens, v \in SpeedSpecimens}
RawStrings == UNION {[1..n -> Alphabet] : n \in 0..MaxRawLen}
RawSpecimens ==
    {Undefined, Str(InfinityLiteral), Str(<<"-">> \o InfinityLiteral)}
        \cup {Str(s) : s \in RawStrings}
\* The feeds of the aggregation, with up to longest vehicles in an array.
AggFeeds(longest) ==
    {NoVehicles}
        \cup {OneVehicle(Vehicle("7", raw)) : raw \in RawSpecimens}
        \cup {ManyVehicles(vs) :
                vs \in UNION {[1..n -> VehicleSpecimens] : n \in 0..longest}}
AggNowMs == 1000

AggInit ==
    /\ CloudIdle
    /\ IoIdle
    /\ DriverIdle
    /\ ScheduleIdle
    /\ DateIdle
    /\ CodecIdle
    /\ \E feed \in AggFeeds(MaxVehicles) : aVehicles = asArray(feed)
    /\ aIdx = 0
    /\ aRouteData = EmptyRouteData
    /\ aRecords = << >>

AggStep ==
    /\ aIdx < Len(aVehicles)
    /\ aIdx' = aIdx + 1
    /\ aRouteData' = AccumulateVehicle(aRouteData, aVehicles[aIdx + 1])
    /\ UNCHANGED <<aVehicles, aRecords, outsideAgg>>

AggEmit ==
    /\ aIdx = Len(aVehicles)
    /\ aIdx' = aIdx + 1
    /\ \E ups \in SUBSET TiedRoutes(aRouteData) :
          aRecords' = RecordsOf(ObjectKeys(aRouteData), aRouteData, AggNowMs, ups)
    /\ UNCHANGED <<aVehicles, aRouteData, outsideAgg>>

AggNext == AggStep \/ AggEmit
SpecAgg == AggInit /\ [][AggNext]_vars
AggDone == aIdx = Len(aVehicles) + 1

(***************************************************************************)
(* The date of getTodaysCacheFile on its own: an instant is drawn, its     *)
(* date is taken.  Instants are days since the epoch with a time within    *)
(* the day: the first years after the epoch, and the days around the end   *)
(* of February 2000, 21 January 2026, the end of 2026 and the end of       *)
(* February 2100.                                                          *)
(***************************************************************************)
DaySpecimens ==
    (1..MaxEpochDay) \cup (11014..11018) \cup (20472..20476) \cup (20817..20820)
        \cup (47539..47543)
TimeSpecimens == {0, 1, DAY_MS \div 2, DAY_MS - 1}

DateInit ==
    /\ CloudIdle
    /\ IoIdle
    /\ DriverIdle
    /\ ScheduleIdle
    /\ AggIdle
    /\ CodecIdle
    /\ \E day \in DaySpecimens, ms \in TimeSpecimens :
          dInstant = [day |-> day, ms |-> ms]
    /\ dToday = << >>

DateStep ==
    /\ dToday = << >>
    /\ dToday' = Today(dInstant.day, dInstant.ms)
    /\ UNCHANGED <<dInstant, outsideDate>>

DateNext == DateStep
SpecDate == DateInit /\ [][DateNext]_vars

(***************************************************************************)
(* saveCache and loadCache on their own: records are drawn, saved to       *)
(* today's partition (missing, holding other records, or cut short         *)
(* before), and loaded again with no write in between.                     *)
(***************************************************************************)
RecordSpecimens ==
    {<<ts, tag, speed, count>> :
        ts \in {1000, 70000}, tag \in {"7", "501"}, speed \in {0, 89, 640},
        count \in {1, 64}}
RecordSequences == UNION {[1..n -> RecordSpecimens] : n \in 0..MaxRecords}
CodecNowMs == 70001
PartitionSpecimens ==
    { << >>,
      saveCache(<< >>, CodecNowMs, <<<<1000, "8", 125, 3>>>>, "ok"),
      saveCache(<< >>, CodecNowMs, << >>, "truncated") }

CodecInit ==
    /\ CloudIdle
    /\ IoIdle
    /\ DriverIdle
    /\ ScheduleIdle
    /\ AggIdle
    /\ DateIdle
    /\ cX \in RecordSequences
    /\ cFiles \in PartitionSpecimens
    /\ cLoaded = NoLoad
    /\ cPc = "save"

CodecSave ==
    /\ cPc = "save"
    /\ cFiles' = saveCache(cFiles, CodecNowMs, cX, "ok")
    /\ cPc' = "load"
    /\ UNCHANGED <<cX, cLoaded, outsideCodec>>

CodecLoad ==
    /\ cPc = "load"
    /\ cLoaded' = loadCache(cFiles, CodecNowMs, TRUE)
    /\ cPc' = "loaded"
    /\ UNCHANGED <<cX, cFiles, outsideCodec>>

CodecNext == CodecSave \/ CodecLoad
SpecCodec == CodecInit /\ [][CodecNext]_vars

(***************************************************************************)
(* fs.writeFileSync(path, data) as the system calls it makes: open with    *)
(* flag 'w', which truncates the file in place; write, repeated while the  *)
(* call wrote less than what is left; close.  saveCache and saveRoutes     *)
(* write their target in place.  Another process reads the file between    *)
(* any two of these calls.                                                 *)
(***************************************************************************)
\* JSON.stringify(routes, null, 2), one token per brace and per entry.
stringify(entries) == <<"{">> \o entries \o <<"}">>

IoStoredRecords == { << >>, <<<<1000, "7", 89, 1>>>> }
IoBatches ==
    { <<<<70000, "7", 90, 2>>>>,
      <<<<70000, "7", 90, 2>>, <<70000, "501", 125, 64>>>> }
IoStoredRoutes == { << >>, <<<<"7", "7-Bathurst">>>> }
IoFetchedRoutes ==
    { <<<<"8", "8-Broadview">>>>,
      <<<<"7", "7-Bathurst">>, <<"8", "8-Broadview">>>> }

IoInit ==
    /\ CloudIdle
    /\ DriverIdle
    /\ ScheduleIdle
    /\ AggIdle
    /\ DateIdle
    /\ CodecIdle
    /\ \/ /\ ioCall = "saveCache"
          /\ \E cached \in IoStoredRecords, recs \in IoBatches :
                /\ ioOld = pack(cached)
                /\ ioNew = pack(cached \o recs)
       \/ /\ ioCall = "saveRoutes"
          /\ \E stored \in IoStoredRoutes, fetched \in IoFetchedRoutes :
                /\ ioOld = stringify(stored)
                /\ ioNew = stringify(fetched)
    /\ ioDisk = ioOld
    /\ ioWriter = "called"
    /\ ioSeen = NotRead

\* fs.openSync(path, 'w'): O_WRONLY | O_CREAT | O_TRUNC
WriteOpen ==
    /\ ioWriter = "called"
    /\ ioDisk' = << >>
    /\ ioWriter' = "writing"
    /\ UNCHANGED <<ioCall, ioOld, ioNew, ioSeen, outsideIo>>

\* fs.writeSync(fd, data, offset, length): writes n of the tokens left
WriteChunk ==
    /\ ioWriter = "writing"
    /\ Len(ioDisk) < Len(ioNew)
    /\ \E n \in 1..(Len(ioNew) - Len(ioDisk)) :
          ioDisk' = ioDisk \o SubSeq(ioNew, Len(ioDisk) + 1, Len(ioDisk) + n)
    /\ UNCHANGED <<ioCall, ioOld, ioNew, ioWriter, ioSeen, outsideIo>>

\* fs.closeSync(fd), once everything is written
WriteClose ==
    /\ ioWriter = "writing"
    /\ Len(ioDisk) = Len(ioNew)
    /\ ioWriter' = "returned"
    /\ UNCHANGED <<ioCall, ioOld, ioNew, ioDisk, ioSeen, outsideIo>>

\* Another process reads the whole file, once.
ReadFile ==
    /\ ~ioSeen.done
    /\ ioSeen' = [done |-> TRUE, bytes |-> ioDisk]
    /\ UNCHANGED <<ioCall, ioOld, ioNew, ioDisk, ioWriter, outsideIo>>

IoNext == WriteOpen \/ WriteChunk \/ WriteClose \/ ReadFile
SpecIo == IoInit /\ [][IoNext]_vars

(***************************************************************************)
(* The endpoint api/collect-sample: one handler call per inbound request,  *)
(* on one of the function instances; calls on different instances          *)
(* interleave at their awaits.  The deployment fixes process.env and the   *)
(* @vercel/blob release, whose put() by default either appends a random    *)
(* suffix to the pathname or keeps the pathname and refuses to overwrite.  *)
(***************************************************************************)
Instances == {1, 2}
CronSecrets == {ABSENT, "s3cret"}
SignatureHeaders == {ABSENT, "valid", "forged"}
AuthorizationHeaders == {ABSENT, "Bearer s3cret", "Bearer undefined"}
PutDefaults == {"randomSuffix", "noOverwrite"}
\* 1970-01-01T23:06:36.096Z and T23:06:59.999Z, two instants of one minute
CloudInstants == <<83196096, 83219999>>

\* a falsy header or environment value: undefined or ''
Truthy(v) == v # ABSENT /\ v # ""
\* `${v}`
TemplateString(v) == IF v = ABSENT THEN "undefined" ELSE v

NoRequest == [signature |-> ABSENT, authorization |-> ABSENT]
\* The keys of the JSON body of a response: of a 401, of the 200 of a
\* collection, of the 200 'No data collected' and the 500 'Failed to
\* upload'.
BodyKeys(status, success) ==
    IF status = 0 THEN {}
    ELSE IF status = 401 THEN {"error"}
    ELSE IF success
    THEN {"success", "timestamp", "dateStr", "timeStr", "recordsCollected",
          "speedsBlobUrl", "routesBlobUrl", "executionTimeMs"}
    ELSE {"success", "message", "timestamp"}
\* A response: its status and its body.  A key the body lacks has the
\* value 0 or << >> here.
Response(status, success, collected, speedsUrl, routesUrl) ==
    [status |-> status, success |-> success, recordsCollected |-> collected,
     speedsBlobUrl |-> speedsUrl, routesBlobUrl |-> routesUrl,
     keys |-> BodyKeys(status, success)]
NoResponse == Response(0, FALSE, 0, << >>, << >>)
NoInvocation ==
    [pc |-> "idle", id |-> 0, req |-> NoRequest, now |-> 0, dateStr |-> << >>,
     timeStr |-> << >>, records |-> << >>, put |-> "none",
     speedsBlobUrl |-> << >>, routes |-> NoTitles, response |-> NoResponse]

\* upstashSignature && hasSigningKeys
UsesSignature(env, req) == Truthy(req.signature) /\ env.hasSigningKeys

\* As AuthorizedBySecret, without the test that a secret is configured.
AuthorizedBySecret_Unguarded(env, req) ==
    req.authorization = "Bearer " \o TemplateString(env.cronSecret)

\* cronSecret && req.headers['authorization'] === `Bearer ${cronSecret}`
AuthorizedBySecret(env, req) ==
    /\ Truthy(env.cronSecret)
    /\ req.authorization = "Bearer " \o TemplateString(env.cronSecret)

RECURSIVE ReplaceFirst(_, _)
\* s.replace(c, '')
ReplaceFirst(s, c) ==
    IF Len(s) = 0 THEN << >>
    ELSE IF Head(s) = c THEN Tail(s)
    ELSE <<Head(s)>> \o ReplaceFirst(Tail(s), c)

\* now.toISOString().split('T')[0]
dateStr(now) == Today(now \div DAY_MS, now % DAY_MS)
\* now.toISOString().slice(11, 16).replace(':', '')
timeStr(now) ==
    ReplaceFirst(SubSeq(toISOString(now \div DAY_MS, now % DAY_MS), 12, 16), ":")

SpeedsFilename(date, time) == <<"speed-data-", date, "-", time, ".msgpack">>
RoutesFilename(date) == <<"routes-", date, ".json">>
RoutesPrefix(date) == <<"routes-", date>>

\* put(pathname, body, {access, contentType}): the request fails, or the
\* blob is stored under the pathname with a random suffix, or it is stored
\* under the pathname itself unless a blob of that pathname exists.
put(store, filename, body, id, network) ==
    IF ~network THEN [kind |-> "error", url |-> << >>, store |-> store]
    ELSE IF hEnv.put = "randomSuffix"
    THEN LET pathname == [name |-> filename, suffix |-> DigitChar[id + 1]] IN
         [kind |-> "stored", url |-> <<pathname>>,
          store |-> store \cup {[pathname |-> pathname, body |-> body, by |-> id]}]
    ELSE LET pathname == [name |-> filename, suffix |-> ""] IN
         IF \E b \in store : b.pathname = pathname
         THEN [kind |-> "refused", url |-> << >>, store |-> store]
         ELSE [kind |-> "stored", url |-> <<pathname>>,
               store |-> store \cup {[pathname |-> pathname, body |-> body, by |-> id]}]

\* list({ prefix }).blobs
list(store, prefix) ==
    {b \in store :
        /\ Len(prefix) <= Len(b.pathname.name)
        /\ \A i \in 1..Len(prefix) : b.pathname.name[i] = prefix[i]}

SetInvocation(k, inv) == hInv' = [hInv EXCEPT ![k] = inv]

\* Past the authentication: startTime, now, dateStr, timeStr, and
\* fetchCurrentSpeeds is called and reads Date.now().
Authorized(inv) ==
    [inv EXCEPT !.pc = "fetch", !.now = hClock, !.dateStr = dateStr(hClock),
                !.timeStr = timeStr(hClock)]
\* res.status(401).json(...)
Rejected(inv) ==
    [inv EXCEPT !.pc = "done", !.response = Response(401, FALSE, 0, << >>, << >>)]
\* res.status(200).json({ success: false, message: 'No data collected' })
NoData(inv) ==
    [inv EXCEPT !.pc = "done", !.req = NoRequest, !.now = 0, !.dateStr = << >>,
                !.timeStr = << >>, !.records = << >>,
                !.response = Response(200, FALSE, 0, << >>, << >>)]
\* res.status(200).json({ success: true, ... })
Succeeded(inv, routesUrl) ==
    [inv EXCEPT !.pc = "done", !.now = 0, !.dateStr = << >>, !.timeStr = << >>,
                !.records = << >>, !.speedsBlobUrl = << >>, !.routes = NoTitles,
                !.response = Response(200, TRUE, Len(inv.records),
                                      inv.speedsBlobUrl, routesUrl)]

\* A request arrives at the first instance that runs no call, and the
\* handler runs to its first await: receiver.verify, or the fetch of
\* fetchCurrentSpeeds, or it returns the 401.  The locals of a call that
\* returned are gone.
Invoke(k) ==
    /\ k \in DOMAIN hInv
    /\ hInv[k].pc \in {"idle", "done"}
    /\ \A j \in DOMAIN hInv : j < k => hInv[j].pc \notin {"idle", "done"}
    /\ hStarted < MaxInvocations
    /\ hStarted' = hStarted + 1
    /\ \E signature \in SignatureHeaders, authorization \in AuthorizationHeaders :
          LET req == [signature |-> signature, authorization |-> authorization]
              inv == [NoInvocation EXCEPT !.id = hStarted + 1, !.req = req]
          IN  IF UsesSignature(hEnv, req)
              THEN SetInvocation(k, [inv EXCEPT !.pc = "verify"])
              ELSE IF AuthorizedBySecret(hEnv, req)
              THEN SetInvocation(k, Authorized(inv))
              ELSE SetInvocation(k, Rejected(inv))
    /\ UNCHANGED <<hEnv, hClock, blobs, outsideCloud>>

\* await receiver.verify(...) resolves, or throws into the catch.
Verify(k) ==
    /\ k \in DOMAIN hInv
    /\ hInv[k].pc = "verify"
    /\ IF hInv[k].req.signature = "valid"
       THEN SetInvocation(k, Authorized(hInv[k]))
       ELSE SetInvocation(k, Rejected(hInv[k]))
    /\ UNCHANGED <<hEnv, hClock, hStarted, blobs, outsideCloud>>

\* fetchCurrentSpeeds: [] from its catch, or the records of the feed.
FetchSpeeds(k) ==
    /\ k \in DOMAIN hInv
    /\ hInv[k].pc = "fetch"
    /\ \/ SetInvocation(k, NoData(hInv[k]))
       \/ \E feed \in Feeds :
             \E rd \in {AccumulateAll(EmptyRouteData, asArray(feed))} :
             \E ups \in SUBSET TiedRoutes(rd) :
             \E recs \in {RecordsOf(ObjectKeys(rd), rd, hInv[k].now, ups)} :
                IF NoDataCollected(recs)
                THEN SetInvocation(k, NoData(hInv[k]))
                ELSE SetInvocation(k, [hInv[k] EXCEPT !.pc = "put_speeds",
                                                      !.req = NoRequest,
                                                      !.records = recs])
    /\ UNCHANGED <<hEnv, hClock, hStarted, blobs, outsideCloud>>

\* As UploadSpeeds, but a failed upload is ignored: the handler goes on to
\* the route lookup.
UploadSpeeds_FailureIgnored(k) ==
    /\ k \in DOMAIN hInv
    /\ hInv[k].pc = "put_speeds"
    /\ \E network \in BOOLEAN :
          \E inv \in {hInv[k]} :
          \E result \in {put(blobs.speeds, SpeedsFilename(inv.dateStr, inv.timeStr),
                             pack(inv.records), inv.id, network)} :
              /\ blobs' = [blobs EXCEPT !.speeds = result.store]
              /\ SetInvocation(k, [inv EXCEPT !.pc = "list", !.put = result.kind,
                                              !.speedsBlobUrl = result.url])
    /\ UNCHANGED <<hEnv, hClock, hStarted, outsideCloud>>

\* uploadSpeedsToBlob: the url, or null from its catch and a 500.
UploadSpeeds(k) ==
    /\ k \in DOMAIN hInv
    /\ hInv[k].pc = "put_speeds"
    /\ \E network \in BOOLEAN :
          \E inv \in {hInv[k]} :
          \E result \in {put(blobs.speeds, SpeedsFilename(inv.dateStr, inv.timeStr),
                             pack(inv.records), inv.id, network)} :
              /\ blobs' = [blobs EXCEPT !.speeds = result.store]
              /\ IF result.kind = "stored"
                 THEN SetInvocation(k, [inv EXCEPT !.pc = "list", !.put = result.kind,
                                                   !.speedsBlobUrl = result.url])
                 ELSE SetInvocation(k, [inv EXCEPT !.pc = "done", !.put = result.kind,
                          !.now = 0, !.dateStr = << >>, !.timeStr = << >>,
                          !.records = << >>,
                          !.response = Response(500, FALSE, 0, << >>, << >>)])
    /\ UNCHANGED <<hEnv, hClock, hStarted, outsideCloud>>

\* list({ prefix: `routes-${dateStr}` }): throws into the inner catch, finds
\* a blob, or finds none and getRouteTitlesByTag is called.
ListRoutes(k) ==
    /\ k \in DOMAIN hInv
    /\ hInv[k].pc = "list"
    /\ \E listed \in BOOLEAN :
          IF ~listed \/ list(blobs.routes, RoutesPrefix(hInv[k].dateStr)) # {}
                     \/ list(blobs.speeds, RoutesPrefix(hInv[k].dateStr)) # {}
          THEN SetInvocation(k, Succeeded(hInv[k], << >>))
          ELSE SetInvocation(k, [hInv[k] EXCEPT !.pc = "route_fetch"])
    /\ UNCHANGED <<hEnv, hClock, hStarted, blobs, outsideCloud>>

\* getRouteTitlesByTag: {} when the fetch fails, else the titles; an empty
\* lookup is not uploaded.
FetchRouteTitles(k) ==
    /\ k \in DOMAIN hInv
    /\ hInv[k].pc = "route_fetch"
    /\ \/ SetInvocation(k, Succeeded(hInv[k], << >>))
       \/ \E routeList \in RouteLists :
             \E titles \in {TitlesByRouteTag(NoTitles, asArray(routeList))} :
             IF DOMAIN titles = {}
             THEN SetInvocation(k, Succeeded(hInv[k], << >>))
             ELSE SetInvocation(k, [hInv[k] EXCEPT !.pc = "put_routes",
                                                   !.routes = titles])
    /\ UNCHANGED <<hEnv, hClock, hStarted, blobs, outsideCloud>>

\* uploadRoutesToBlob: the url, or null from its catch; 200 either way.
UploadRoutes(k) ==
    /\ k \in DOMAIN hInv
    /\ hInv[k].pc = "put_routes"
    /\ \E network \in BOOLEAN :
          \E inv \in {hInv[k]} :
          \E result \in {put(blobs.routes, RoutesFilename(inv.dateStr),
                             inv.routes, inv.id, network)} :
              /\ blobs' = [blobs EXCEPT !.routes = result.store]
              /\ SetInvocation(k, Succeeded(inv, result.url))
    /\ UNCHANGED <<hEnv, hClock, hStarted, outsideCloud>>

\* Time passes while a call is awaited or before the next request.
CloudTick ==
    /\ \/ hStarted < MaxInvocations /\ hInv # << >>
       \/ \E k \in DOMAIN hInv : hInv[k].pc \notin {"idle", "done"}
    /\ \E i \in 1..(Len(CloudInstants) - 1) :
          /\ hClock = CloudInstants[i]
          /\ hClock' = CloudInstants[i + 1]
    /\ UNCHANGED <<hEnv, hStarted, hInv, blobs, outsideCloud>>

CloudInit ==
    /\ DriverIdle
    /\ ScheduleIdle
    /\ AggIdle
    /\ DateIdle
    /\ CodecIdle
    /\ IoIdle
    /\ hEnv \in [cronSecret : CronSecrets, hasSigningKeys : BOOLEAN, put : PutDefaults]
    /\ hClock = CloudInstants[1]
    /\ hStarted = 0
    /\ hInv = [k \in Instances |-> NoInvocation]
    /\ blobs = [speeds |-> {}, routes |-> {}]

CloudNext ==
    \/ \E k \in Instances :
          \/ Invoke(k)
          \/ Verify(k)
          \/ FetchSpeeds(k)
          \/ UploadSpeeds(k)
          \/ ListRoutes(k)
          \/ FetchRouteTitles(k)
          \/ UploadRoutes(k)
    \/ CloudTick
SpecCloud == CloudInit /\ [][CloudNext]_vars

(***************************************************************************)
(* Either driver: the standalone collector from its start, where there is  *)
(* no endpoint, or the endpoint of a deployment.                           *)
(***************************************************************************)
DriversInit == Init \/ CloudInit
DriversNext == (CloudIdle /\ Next) \/ CloudNext
SpecDrivers == DriversInit /\ [][DriversNext]_vars

(***************************************************************************)
(* scripts/qstash-schedule.ts: main lists the schedules of the QStash      *)
(* account, deletes those whose destination includes '/api/collect-sample' *)
(* one awaited call after the other, and creates the per-minute schedule   *)
(* for the url of the environment.  Any awaited call may reject: the       *)
(* rejection leaves main and main().catch exits with status 1.  A url is   *)
(* the sequence of its parts, the empty string the empty sequence; runs    *)
(* follow one another.                                                     *)
(***************************************************************************)
MaxScheduleRuns == 2
\* COLLECT_ENDPOINT_URL: unset or empty (both falsy under ||), the endpoint
\* under another host, and an address without the path (a rewrite or a
\* proxy in front of it).
EndpointUrls ==
    {<<>>,
     <<"https://", "ttc.example.com", "/api", "/collect-sample">>,
     <<"https://", "ttc.example.com", "/collect">>}
QStashTokens == {ABSENT, "qstash-token"}
EveryMinute == "* * * * *"

\* A schedule of the account; authorization is its Authorization header.
QSchedule(id, destination, cron, authorization) ==
    [scheduleId |-> id, destination |-> destination, cron |-> cron,
     authorization |-> authorization]
\* Schedules the account may hold before the first run: one of another
\* service, and one for the endpoint made by hand.
ForeignSchedule ==
    QSchedule(101, <<"https://", "other.example.com", "/api", "/ping">>, "0 * * * *", ABSENT)
HandMadeSchedule ==
    QSchedule(102, <<"https://", "ttc-speed-cache.vercel.app", "/api", "/collect-sample">>,
              "*/5 * * * *", ABSENT)

\* process.env.COLLECT_ENDPOINT_URL || "https://ttc-speed-cache.vercel.app/api/collect-sample"
EndpointUrl(env) ==
    IF env.url # <<>> THEN env.url
    ELSE <<"https://", "ttc-speed-cache.vercel.app", "/api", "/collect-sample">>
\* existingSchedules.filter((s) => s.destination?.includes("/api/collect-sample"))
matchingSchedules(existingSchedules) ==
    {s \in existingSchedules :
        \E i \in 1..(Len(s.destination) - 1) :
            SubSeq(s.destination, i, i + 1) = <<"/api", "/collect-sample">>}
\* cronSecret ? { Authorization: `Bearer ${cronSecret}` } : undefined
ScheduleHeaders(env) ==
    IF Truthy(env.cronSecret)
    THEN "Bearer " \o TemplateString(env.cronSecret)
    ELSE ABSENT

\* A rejection or a throw inside main: main().catch, process.exit(1).
ScheduleFails ==
    /\ qPc' = "exited"
    /\ qExit' = 1
    /\ qMatching' = {}

\* A run starts: main up to its first await, client.schedules.list().
ScheduleMain ==
    /\ qPc \in {"idle", "exited"}
    /\ qRuns < MaxScheduleRuns
    /\ qRuns' = qRuns + 1
    /\ IF ~Truthy(qEnv.token) \/ EndpointUrl(qEnv) = <<>>
       THEN ScheduleFails
       ELSE qPc' = "list" /\ qExit' = -1 /\ qMatching' = {}
    /\ UNCHANGED <<qEnv, qSchedules, outsideSchedule>>

\* The list arrives and is filtered; the first delete is sent, or with
\* nothing to delete the create.
ScheduleList ==
    /\ qPc = "list"
    /\ \E ok \in BOOLEAN :
          IF ~ok THEN ScheduleFails
          ELSE /\ qMatching' = matchingSchedules(qSchedules)
               /\ qPc' = IF qMatching' = {} THEN "create" ELSE "delete"
               /\ UNCHANGED qExit
    /\ UNCHANGED <<qEnv, qRuns, qSchedules, outsideSchedule>>

\* await client.schedules.delete(schedule.scheduleId) returns and the loop
\* goes on; the list is in the order QStash gave, which is any.
ScheduleDelete ==
    /\ qPc = "delete"
    /\ \E schedule \in qMatching, ok \in BOOLEAN :
          IF ~ok THEN ScheduleFails /\ UNCHANGED qSchedules
          ELSE /\ qSchedules' = {s \in qSchedules : s.scheduleId # schedule.scheduleId}
               /\ qMatching' = qMatching \ {schedule}
               /\ qPc' = IF qMatching' = {} THEN "create" ELSE "delete"
               /\ UNCHANGED qExit
    /\ UNCHANGED <<qEnv, qRuns, outsideSchedule>>

\* await client.schedules.create(...) returns the new schedule, which gets
\* an id of its own; main returns and the process ends with status 0.
ScheduleCreate ==
    /\ qPc = "create"
    /\ \E ok \in BOOLEAN :
          IF ~ok THEN ScheduleFails /\ UNCHANGED qSchedules
          ELSE /\ qSchedules' = qSchedules \cup
                      {QSchedule(qRuns, EndpointUrl(qEnv), EveryMinute,
                                 ScheduleHeaders(qEnv))}
               /\ qPc' = "exited"
               /\ qExit' = 0
               /\ UNCHANGED qMatching
    /\ UNCHANGED <<qEnv, qRuns, outsideSchedule>>

ScheduleInit ==
    /\ DriverIdle
    /\ AggIdle
    /\ DateIdle
    /\ CodecIdle
    /\ IoIdle
    /\ CloudIdle
    /\ qEnv \in [token : QStashTokens, url : EndpointUrls, cronSecret : CronSecrets]
    /\ qRuns = 0
    /\ qPc = "idle"
    /\ qMatching = {}
    /\ qExit = -1
    /\ qSchedules \in SUBSET {ForeignSchedule, HandMadeSchedule}

ScheduleNext ==
    \/ ScheduleMain
    \/ ScheduleList
    \/ ScheduleDelete
    \/ ScheduleCreate
SpecSchedule == ScheduleInit /\ [][ScheduleNext]_vars

(***************************************************************************)
(* What the claims speak of, stated over a feed without the fold.          *)
(***************************************************************************)
IsRouteTag(tag) == tag # ABSENT /\ tag # ""
ValidSpeed(v) == parseSpeedKmh(v.speedKmHr) # NULL
\* The elements of vs with a non-empty string routeTag tag and a valid speed.
ValidElements(vs, tag) ==
    {i \in 1..Len(vs) : vs[i].routeTag = tag /\ ValidSpeed(vs[i])}

RECURSIVE SumOfSpeeds(_, _)
SumOfSpeeds(vs, idx) ==
    IF idx = {} THEN 0
    ELSE LET i == CHOOSE x \in idx : TRUE
         IN  parseSpeedKmh(vs[i].speedKmHr).mag + SumOfSpeeds(vs, idx \ {i})

\* tenths is sum/count (in 1/Unit) rounded to one decimal place: no other
\* tenth is nearer to the mean.
IsMeanRounded(tenths, sum, count) ==
    LET diff == tenths * count * TenthUnit - sum
    IN  2 * (IF diff < 0 THEN -diff ELSE diff) <= count * TenthUnit

RecordsWithTag(recs, tag) == {j \in 1..Len(recs) : recs[j][2] = tag}

\* C1: the batch built from the vehicles of one feed has exactly one record
\* for every routeTag with at least one element that has a non-empty string
\* routeTag and a valid speed, with vehicleCount the number of those
\* elements and speedKmh their mean rounded to one decimal place; it has no
\* other record, so elements without a routeTag contribute to none.
C1_OneRecordPerValidRoute ==
    AggDone =>
        /\ \A tag \in {aVehicles[i].routeTag : i \in 1..Len(aVehicles)} :
              LET valid == ValidElements(aVehicles, tag)
                  mine == RecordsWithTag(aRecords, tag)
              IN  IF IsRouteTag(tag) /\ valid # {}
                  THEN /\ Cardinality(mine) = 1
                       /\ \A j \in mine :
                             /\ aRecords[j][4] = Cardinality(valid)
                             /\ IsMeanRounded(aRecords[j][3],
                                              SumOfSpeeds(aVehicles, valid),
                                              Cardinality(valid))
                  ELSE mine = {}
        /\ \A j \in 1..Len(aRecords) :
              \E i \in 1..Len(aVehicles) : aVehicles[i].routeTag = aRecords[j][2]

\* The running sum and count of a route while the feed is folded.
RunningSum(rd, tag) == IF tag \in DOMAIN rd.own THEN rd.own[tag].total_speed ELSE 0
RunningCount(rd, tag) == IF tag \in DOMAIN rd.own THEN rd.own[tag].total_trams ELSE 0

\* Number(raw) of a string attribute, as the claim reads it.
NumberOf(value) == ToNumber(Trim(value.s))
IsInvalidSpeed(value) ==
    \/ value.t = "undefined"
    \/ \A i \in 1..Len(value.s) : value.s[i] \in WhiteSpace
    \/ ~IsFinite(NumberOf(value))
    \/ LessThanZero(NumberOf(value))

\* C2: parseSpeedKmh returns invalid exactly for an absent, blank,
\* non-finite or negative value and the number otherwise; folding an
\* observation with an invalid speed changes neither the sum nor the count
\* of its route, folding one with speed 0 adds 0 to the sum and 1 to the
\* count.
C2_InvalidSkippedZeroCounts ==
    [][aIdx' = aIdx + 1 /\ aIdx < Len(aVehicles) =>
        LET v == aVehicles[aIdx + 1]
            speed == parseSpeedKmh(v.speedKmHr)
            tag == v.routeTag
        IN  /\ (speed = NULL) <=> IsInvalidSpeed(v.speedKmHr)
            /\ speed # NULL => speed = NumberOf(v.speedKmHr)
            /\ IsRouteTag(tag) /\ speed = NULL =>
                  /\ RunningSum(aRouteData', tag) = RunningSum(aRouteData, tag)
                  /\ RunningCount(aRouteData', tag) = RunningCount(aRouteData, tag)
            /\ IsRouteTag(tag) /\ speed # NULL /\ speed.mag = 0 =>
                  /\ RunningSum(aRouteData', tag) = RunningSum(aRouteData, tag) + 0
                  /\ RunningCount(aRouteData', tag) = RunningCount(aRouteData, tag) + 1
    ]_vars

(***************************************************************************)
(* The route title cache, as the claims speak of it.                       *)
(***************************************************************************)
\* The mapping a cache holds; the empty mapping when it holds none.
MappingOf(c) == IF c = NoCache THEN << >> ELSE c.titlesByRouteTag
\* Fresh at time t: something is cached and its age is below the TTL.
AgeBelowTTL(c, t) == c # NoCache /\ t - c.fetchedAtMs < ROUTE_TITLES_TTL_MS
FetchFailureKinds == {"rejected", "not ok", "unreadable"}
\* The step in which fetchCurrentSpeeds calls getRouteTitlesByTag.
TitlesCalled ==
    pc = "v_text" /\ pc' \in {"t_fetch", "load", "cycle_end"} /\ response' = "ok"
\* The step sends a routeList request.
RouteListFetchIssued == resp # "pending" /\ resp' = "pending"
\* The step in which the routeList fetch of the call in flight fails.
RouteListFetchFails == pc \in {"t_fetch", "t_text"} /\ resp' \in FetchFailureKinds

SetOf(seq) == {seq[i] : i \in 1..Len(seq)}
IsPrefix(a, b) == Len(a) <= Len(b) /\ \A i \in 1..Len(a) : a[i] = b[i]
\* What a load of partition d returns when the read succeeds.
ContentOf(files, d) ==
    IF d \in DOMAIN files /\ files[d].state = "ok"
    THEN unpack(files[d].bytes).value ELSE << >>
IsReadable(files, d) == d \in DOMAIN files => files[d].state = "ok"

\* C5: when a cycle appends its non-empty batch B to today's partition,
\* which already holds the batch A of an earlier cycle, a load that follows
\* returns the records that were there (the earlier content and A) together
\* with those of B and no others; as sets of records, so whichever batch
\* came first.
C5_AppendIsUnion ==
    [][pc = "save" /\ lastSave' = "returned" =>
          LET d == getTodaysCacheFile(clock) IN
          IsReadable(cacheFiles, d) /\ ContentOf(cacheFiles, d) # << >> =>
              SetOf(loadCache(cacheFiles', clock', TRUE).value)
                  = SetOf(ContentOf(cacheFiles, d)) \cup SetOf(records)
    ]_vars

\* C6: a daily partition only grows at its end: what it holds before a
\* step is a prefix of what it holds after it.
C6_AppendOnly ==
    [][\A d \in DOMAIN cacheFiles :
          cacheFiles[d].state = "ok" =>
              /\ d \in DOMAIN cacheFiles'
              /\ cacheFiles'[d].state = "ok"
              /\ IsPrefix(ContentOf(cacheFiles, d), ContentOf(cacheFiles', d))
    ]_vars

\* C7: a loadCache call that finds corrupt or truncated bytes ends in an
\* error that reaches its caller; it does not return the empty sequence.
C7_CorruptReadSurfaces ==
    lastLoad.bytes = "corrupt" =>
        lastLoad.completion = "throw" /\ lastLoad.value # << >>

(***************************************************************************)
(* The driver's survival and shutdown, as the claims speak of them.        *)
(***************************************************************************)
InFlight == {"v_fetch", "v_text", "t_fetch", "t_text", "load", "save"}
BudgetReached == (clock - startTimeMs) \div DAY_MS >= durationDays

\* C8: a saveCache that throws does not end the process: the cycle ends
\* and the driver goes on to what follows a cycle.
C8_PersistFailureSurvived ==
    [][pc = "save" /\ lastSave' = "threw" =>
          pc' = "cycle_end" /\ exitCode' = -1
    ]_vars

\* C9: a vehicleLocations fetch that fails (rejected, non-success status,
\* unreadable body) ends the cycle with zero records and no file written,
\* and the process lives on; after such a cycle the driver starts the timer
\* of the next cycle, and ends only by a stop condition (the budget, the
\* cleared flag, the signal), never with a failure status.
C9_FetchFailureSurvived ==
    [][/\ pc \in {"v_fetch", "v_text"} /\ response' \in FetchFailureKinds =>
             /\ records' = << >>
             /\ pc' = "cycle_end"
             /\ exitCode' = -1
             /\ cacheFiles' = cacheFiles
       /\ pc = "cycle_end" /\ response \in FetchFailureKinds /\ pc' # pc =>
             \/ /\ pc' = "sleep"
                /\ timerDue' = clock + FETCH_INTERVAL_MS
                /\ exitCode' = -1
             \/ /\ pc' = "exited"
                /\ \/ exitCode' = 130
                   \/ exitCode' = 0 /\ handler /\ (BudgetReached \/ ~isRunning)
    ]_vars

\* A cycle of the loop ended by a failed fetch and the process is alive.
C9_Witness ==
    /\ pc = "cycle_end"
    /\ cycles >= 2
    /\ restarts = 0
    /\ handler
    /\ response \in FetchFailureKinds
    /\ records = << >>
    /\ exitCode = -1

\* C10: the signal never ends the process while a cycle is in flight: a
\* process that ends then ends by that cycle's own failure, not with the
\* status of a process killed by SIGINT.
C10_CooperativeCancellation ==
    [][(pc \in InFlight) /\ pc' = "exited" =>
          exitCode' # 130
    ]_vars

\* C11: the driver ends only under a stop condition (the budget reached, the
\* signal arrived), and then by its own exit after the final statistics
\* were printed: a process that has ended has printed them and has ended
\* with status 0.
C11_EndsWithFinalStatistics ==
    pc = "exited" => exitCode = 0 /\ "Cache Statistics" \in log

\* The titles routes.json holds; none when it is missing.
LookupOf(file) == IF file.state = "ok" THEN file.titles ELSE << >>

\* C17: when a refresh is persisted, routes.json keeps every routeTag it
\* held before, and holds for each routeTag the title of the newest refresh
\* that contained it: the new title for a tag of this refresh, the title it
\* had for any other tag.
C17_LookupKeysAccumulate ==
    [][(routesFile' # routesFile) =>
          LET old == LookupOf(routesFile)
              new == MappingOf(routeTitlesCache')
              now == LookupOf(routesFile')
          IN  /\ DOMAIN now = DOMAIN old \cup DOMAIN new
              /\ \A tag \in DOMAIN now :
                    now[tag] = IF tag \in DOMAIN new THEN new[tag] ELSE old[tag]
    ]_vars

(***************************************************************************)
(* The calendar, as the claims speak of it: a date is year, month, day.    *)
(***************************************************************************)
RECURSIVE NumberOfDigits(_)
NumberOfDigits(chars) ==
    IF Len(chars) = 0 THEN 0
    ELSE 10 * NumberOfDigits(SubSeq(chars, 1, Len(chars) - 1))
            + DigitVal[chars[Len(chars)]]
IsDateKey(key) ==
    /\ Len(key) = 10
    /\ key[5] = "-" /\ key[8] = "-"
    /\ \A i \in {1, 2, 3, 4, 6, 7, 9, 10} : key[i] \in Digits
DateOfKey(key) ==
    <<NumberOfDigits(SubSeq(key, 1, 4)), NumberOfDigits(SubSeq(key, 6, 7)),
      NumberOfDigits(SubSeq(key, 9, 10))>>
IsLeapYear(y) == (y % 4 = 0 /\ y % 100 # 0) \/ y % 400 = 0
DaysInMonth(y, m) ==
    IF m = 2 THEN (IF IsLeapYear(y) THEN 29 ELSE 28)
    ELSE IF m \in {4, 6, 9, 11} THEN 30 ELSE 31
\* The calendar date after the date ymd.
NextDate(ymd) ==
    IF ymd[3] < DaysInMonth(ymd[1], ymd[2]) THEN <<ymd[1], ymd[2], ymd[3] + 1>>
    ELSE IF ymd[2] < 12 THEN <<ymd[1], ymd[2] + 1, 1>>
    ELSE <<ymd[1] + 1, 1, 1>>

\* C19: the key of an instant is the UTC date of its day: it is the key of
\* the first and of the last millisecond (23:59:59.999) of that day, and the
\* key of the next millisecond after that is the next calendar date; the
\* epoch lies in 1970-01-01 and day 20474 is 2026-01-21.
C19_KeyChangesAtMidnight ==
    dToday # << >> =>
        LET day == dInstant.day
            next == Today(day + 1, 0)
        IN  /\ IsDateKey(dToday)
            /\ dToday = Today(day, 0)
            /\ dToday = Today(day, DAY_MS - 1)
            /\ IsDateKey(next)
            /\ DateOfKey(next) = NextDate(DateOfKey(dToday))
            /\ day = 1 => DateOfKey(dToday) = <<1970, 1, 2>>
            /\ day = 20474 => DateOfKey(dToday) = <<2026, 1, 21>>

\* The last millisecond of 2026-01-21 has the key 2026-01-21.
C19_Witness ==
    /\ dInstant = [day |-> 20474, ms |-> DAY_MS - 1]
    /\ dToday = <<"2", "0", "2", "6", "-", "0", "1", "-", "2", "1">>

C14_ReaderSeesOldOrNew ==
    ioSeen.done => ioSeen.bytes \in {ioOld, ioNew}

(***************************************************************************)
(* The endpoint: what the credentials of a request are worth, and the step *)
(* in which the handler decides on them.                                   *)
(***************************************************************************)
ValidSignature(env, req) == env.hasSigningKeys /\ req.signature = "valid"
BearerMatches(env, req) ==
    /\ env.cronSecret \notin {ABSENT, ""}
    /\ req.authorization = "Bearer " \o env.cronSecret
Is401(inv) == inv.pc = "done" /\ inv.response.status = 401
HasBlobOf(store, id) ==
    \/ \E b \in store.speeds : b.by = id
    \/ \E b \in store.routes : b.by = id

\* C12: a request with no valid signature and no matching bearer token, the
\* case of no configured secret included, never gets to the feed fetch: it
\* waits for the verification or has its 401, and no blob is stored for a
\* call that was answered 401.
C12_UnauthorizedHasNoEffect ==
    \A k \in DOMAIN hInv :
        /\ (hInv[k].pc \in {"verify", "fetch"} \/ Is401(hInv[k])) =>
              (~ValidSignature(hEnv, hInv[k].req) /\ ~BearerMatches(hEnv, hInv[k].req)
                  => hInv[k].pc = "verify" \/ Is401(hInv[k]))
        /\ Is401(hInv[k]) => ~HasBlobOf(blobs, hInv[k].id)

\* No secret is configured and the request carries "Bearer undefined" and a
\* forged signature: it got the 401, while a blob of another call is stored.
C12_Witness ==
    /\ hEnv.cronSecret = ABSENT
    /\ blobs.speeds # {}
    /\ \E k \in DOMAIN hInv :
          /\ Is401(hInv[k])
          /\ hInv[k].req = [signature |-> "forged", authorization |-> "Bearer undefined"]

\* C13: a request with a valid signature, or with the bearer token of the
\* configured secret whatever its signature header, is not answered 401.
C13_EitherMechanismAuthorizes ==
    \A k \in DOMAIN hInv :
        (ValidSignature(hEnv, hInv[k].req) \/ BearerMatches(hEnv, hInv[k].req))
            => ~Is401(hInv[k])

\* C15: every call that uploaded its batch has a blob of its own, under a
\* pathname that no other call's blob has.
C15_OwnPartitionPerInvocation ==
    \A k \in DOMAIN hInv :
        hInv[k].put \in {"stored", "refused"} =>
            \E b \in blobs.speeds :
                /\ b.by = hInv[k].id
                /\ \A c \in blobs.speeds : c.by # b.by => c.pathname # b.pathname

\* C16: the Blob store holds at most one routes blob of a date.
C16_RoutesWrittenOncePerDate ==
    \A b \in blobs.routes, c \in blobs.routes :
        b.pathname.name = c.pathname.name => b = c

\* fetchCurrentSpeeds returns to collectSample (standalone) or to the
\* handler of instance k (endpoint).
FetchPcs == {"v_fetch", "v_text", "t_fetch", "t_text"}
FetchReturns == pc \in FetchPcs /\ pc' \in {"load", "cycle_end"}
FetchReturnsTo(k) == hInv[k].pc = "fetch" /\ hInv'[k].pc # "fetch"

\* C18: when the vehicleLocations fetch failed or gave no records, the
\* cycle ends there: it reports that nothing was collected, and nothing is
\* loaded, written or created; a load or an upload only ever follows a
\* batch that has records.  This holds for the standalone collector and
\* for the endpoint.
C18_EmptyCycleEndsEarly ==
    [][/\ (FetchReturns /\ Len(records') = 0) =>
             /\ pc' = "cycle_end"
             /\ "No data fetched" \in log'
             /\ cacheFiles' = cacheFiles
             /\ lastLoad' = lastLoad
             /\ lastSave' = lastSave
       /\ pc' \in {"load", "save"} => Len(records') > 0
       /\ \A k \in DOMAIN hInv :
             /\ (FetchReturnsTo(k) /\ Len(hInv'[k].records) = 0) =>
                   /\ hInv'[k].pc = "done"
                   /\ hInv'[k].response = Response(200, FALSE, 0, << >>, << >>)
                   /\ blobs' = blobs
             /\ hInv'[k].pc \in {"put_speeds", "list", "route_fetch", "put_routes"}
                   => Len(hInv'[k].records) > 0
             /\ (hInv'[k].response.status = 200 /\ ~hInv'[k].response.success) =>
                   ~HasBlobOf(blobs', hInv'[k].id)
    ]_vars

\* The endpoint answered a call "no data collected", and the blob another
\* call stored is all the store holds.
C18_Witness ==
    /\ Cardinality(blobs.speeds) = 1
    /\ blobs.routes = {}
    /\ \E k \in DOMAIN hInv :
          /\ hInv[k].pc = "done"
          /\ hInv[k].response = Response(200, FALSE, 0, << >>, << >>)
          /\ hInv[k].id = 2
          /\ \A b \in blobs.speeds : b.by = 1

(***************************************************************************)
(* The records the program holds: in memory the batch and the cache of a   *)
(* cycle, what a load returned and the batch of a handler call; in storage *)
(* the partitions on disk and the speeds blobs.                            *)
(***************************************************************************)
\* Every record of recs has a vehicleCount of 1 or more.
CountsVehicles(recs) == \A i \in 1..Len(recs) : recs[i][4] >= 1
HeldInStorageCount(files, store) ==
    /\ \A d \in DOMAIN files : CountsVehicles(ContentOf(files, d))
    /\ \A b \in store.speeds : CountsVehicles(unpack(b.body).value)
\* The routeTags of vs all of whose observations the validation excludes.
ExcludedRoutes(vs) ==
    {tag \in {vs[i].routeTag : i \in 1..Len(vs)} :
        IsRouteTag(tag) /\ ValidElements(vs, tag) = {}}
\* The fold of each feed, the routeTags it excludes, and the feeds whose
\* fold is rd.
FoldOfFeed == [f \in Feeds |-> AccumulateAll(EmptyRouteData, asArray(f))]
ExcludedOfFeed == [f \in Feeds |-> ExcludedRoutes(asArray(f))]
FeedsFoldedTo(rd) == {f \in Feeds : FoldOfFeed[f] = rd}

\* C21: every record of a batch, of a loaded or appended cache, of a
\* partition or of a blob has a vehicleCount of 1 or more (memory and
\* storage start empty, so every record held was put there by a step that
\* changed its holder), and the batch built from a feed has no record
\* for a routeTag all of whose observations were excluded; building it
\* neither logs an error nor ends the process.
C21_NoRecordWithoutVehicles ==
    [][/\ records' # records => CountsVehicles(records')
       /\ cache' # cache => CountsVehicles(cache')
       /\ lastLoad' # lastLoad => CountsVehicles(lastLoad'.value)
       /\ hInv' # hInv => \A k \in DOMAIN hInv' : CountsVehicles(hInv'[k].records)
       /\ (cacheFiles' # cacheFiles \/ blobs' # blobs) =>
             HeldInStorageCount(cacheFiles', blobs')
       /\ (FetchReturns /\ response' = "ok") =>
             /\ \A f \in FeedsFoldedTo(routeData') :
                   \A tag \in ExcludedOfFeed[f] :
                       RecordsWithTag(records', tag) = {}
             /\ exitCode' = -1
             /\ "Error fetching speeds" \notin log'
       /\ \A k \in DOMAIN hInv :
             (FetchReturnsTo(k) /\ Len(hInv'[k].records) > 0) =>
                 \E f \in Feeds :
                     \A tag \in ExcludedOfFeed[f] :
                         RecordsWithTag(hInv'[k].records, tag) = {}
    ]_vars

\* The batch of a feed with a route that has only an excluded observation
\* was saved: it has the records of the two other routes.
C21_Witness ==
    /\ pc = "cycle_end"
    /\ lastSave = "returned"
    /\ Len(records) = 2
    /\ \E f \in FeedsFoldedTo(routeData) : ExcludedOfFeed[f] # {}
    /\ \E d \in DOMAIN cacheFiles :
          /\ cacheFiles[d].state = "ok"
          /\ SetOf(records) \subseteq SetOf(ContentOf(cacheFiles, d))

\* No two records of the batch have the same routeTag.
UniqueRouteTags(batch) ==
    \A i \in 1..Len(batch), j \in 1..Len(batch) : i # j => batch[i][2] # batch[j][2]

\* C22: every record of a cycle's batch carries the clock reading that
\* fetchCurrentSpeeds took when the cycle began, however far the clock has
\* moved since, and that reading is not taken again while the cycle runs;
\* no two records of a batch have the same routeTag.  In the standalone
\* collector and in the endpoint.
C22_OneTimestampUniqueTags ==
    [][/\ \A r \in SetOf(records') : r[1] = nowMs'
       /\ UniqueRouteTags(records')
       /\ (pc \in InFlight /\ pc' \in InFlight \cup {"cycle_end"}) => nowMs' = nowMs
       /\ \A k \in DOMAIN hInv' :
             /\ \A r \in SetOf(hInv'[k].records) : r[1] = hInv'[k].now
             /\ UniqueRouteTags(hInv'[k].records)
             /\ (k \in DOMAIN hInv /\ hInv[k].pc \notin {"idle", "done", "verify"}
                    /\ hInv'[k].pc \notin {"idle", "done"}) =>
                   hInv'[k].now = hInv[k].now
    ]_vars

\* A batch of two records was returned after the clock had moved on: both
\* carry the reading taken at the start of the cycle.
C22_Witness ==
    /\ pc = "load"
    /\ Len(records) = 2
    /\ clock > nowMs
    /\ \A r \in SetOf(records) : r[1] = nowMs
    /\ records[1][2] # records[2][2]

\* C23: the cycles of one process run one after the other.  A cycle begins
\* only while none is in flight (at the start of main or when the timer of
\* the loop fires); the timer is started only after a collectSample() has
\* returned, and a collectSample() that had records returns only when its
\* saveCache returned; a partition is written only by the saveCache of the
\* cycle in flight, and between the loadCache and the saveCache of a cycle
\* no partition changes.
C23_CyclesAreSequential ==
    [][/\ cycles' # cycles =>
             /\ cycles' = cycles + 1
             /\ pc \in {"init", "sleep"}
             /\ pc' = "v_fetch"
       /\ (pc' = "sleep" /\ pc # "sleep") => pc = "cycle_end"
       /\ (pc' = "cycle_end" /\ pc # "cycle_end") =>
             \/ pc \in FetchPcs /\ Len(records') = 0
             \/ pc = "save" /\ lastSave' = "returned"
       /\ cacheFiles' # cacheFiles => pc = "save" /\ pc' \in {"cycle_end", "exited"}
       /\ (pc = "load" /\ pc' \notin {"load", "exited"}) =>
             pc' = "save" /\ cacheFiles' = cacheFiles
    ]_vars

\* The second cycle of a process is about to rewrite the partition that
\* the first one wrote: it loaded the first batch and appended its own.
C23_Witness ==
    /\ pc = "save"
    /\ cycles = 2
    /\ restarts = 0
    /\ Len(cache) > Len(records)
    /\ \E d \in DOMAIN cacheFiles :
          /\ cacheFiles[d].state = "ok"
          /\ ContentOf(cacheFiles, d) \o records = cache

(***************************************************************************)
(* The title refresh within a cycle, as the claims speak of it.            *)
(***************************************************************************)
\* The batches fetchCurrentSpeeds can build from rd with the reading now.
BatchesOf(rd, now) ==
    {RecordsOf(ObjectKeys(rd), rd, now, ups) : ups \in SUBSET TiedRoutes(rd)}
\* The step in which getRouteTitlesByTag returns to fetchCurrentSpeeds.
RefreshReturns ==
    pc \in {"v_text", "t_fetch", "t_text"} /\ pc' \in {"load", "cycle_end"}
        /\ response' = "ok"
\* The step in which the refresh fails: the fetch, the body, or saveRoutes.
RefreshFails ==
    pc \in {"t_fetch", "t_text"} /\ "Error fetching route titles" \in log'
\* The part of the endpoint's handler that refreshes the lookup.
RefreshPcs == {"list", "route_fetch", "put_routes"}

\* C24: a title refresh that fails (the routeList fetch, its body, the
\* write of routes.json; in the endpoint the listing, the fetch, the
\* upload) does not end the cycle.  The standalone collector goes on with
\* the batch built from the vehicles, the same as after a refresh that
\* succeeded, and a batch that has records is loaded for and saved like
\* any other; the endpoint, whose batch is stored by then, leaves the
\* speeds blobs alone and answers 200 with the count and the location of
\* the batch.
C24_RefreshIsBestEffort ==
    [][/\ RefreshReturns =>
             /\ records' \in BatchesOf(routeData', nowMs)
             /\ pc' = "load" <=> Len(records') > 0
       /\ RefreshFails =>
             /\ RefreshReturns
             /\ exitCode' = -1
             /\ "Error fetching speeds" \notin log'
       /\ (pc = "save" /\ lastSave' = "returned") =>
             /\ cacheFiles' = saveCache(cacheFiles, clock, cache, "ok")
             /\ Len(cache) >= Len(records)
             /\ SubSeq(cache, Len(cache) - Len(records) + 1, Len(cache)) = records
             /\ "Collected route speed records" \in log'
       /\ \A k \in DOMAIN hInv :
             (hInv[k].pc \in RefreshPcs /\ hInv'[k] # hInv[k]) =>
                 /\ blobs'.speeds = blobs.speeds
                 /\ hInv'[k].pc \in {"route_fetch", "put_routes", "done"}
                 /\ hInv'[k].pc # "done" =>
                       /\ hInv'[k].records = hInv[k].records
                       /\ hInv'[k].speedsBlobUrl = hInv[k].speedsBlobUrl
                 /\ hInv'[k].pc = "done" =>
                       /\ hInv'[k].response.status = 200
                       /\ hInv'[k].response.success
                       /\ hInv'[k].response.recordsCollected = Len(hInv[k].records)
                       /\ hInv'[k].response.speedsBlobUrl = hInv[k].speedsBlobUrl
                       /\ hInv[k].speedsBlobUrl # << >>
    ]_vars

\* The routeList fetch of a cycle failed, and the cycle saved its batch.
C24_Witness ==
    /\ pc = "cycle_end"
    /\ resp \in FetchFailureKinds
    /\ lastSave = "returned"
    /\ Len(records) > 0
    /\ \E d \in DOMAIN cacheFiles :
          /\ cacheFiles[d].state = "ok"
          /\ SetOf(records) \subseteq SetOf(ContentOf(cacheFiles, d))

\* C25: in a cycle the title refresh runs after the vehicleLocations fetch
\* has returned and before the batch is persisted.  Standalone: while the
\* routeList request is out the vehicle fetch has succeeded and nothing
\* was saved, and when the batch is loaded for and saved the title call of
\* the cycle has been made.  Endpoint: while the handler lists, fetches
\* and uploads the lookup, the batch of the call is not stored yet.
C25_FetchRefreshPersist ==
    /\ pc \in {"t_fetch", "t_text"} => response = "ok" /\ lastSave = "none"
    /\ pc \in {"load", "save"} => response = "ok" /\ rtNow >= nowMs /\ rtNow > 0
    /\ \A k \in DOMAIN hInv :
          hInv[k].pc \in RefreshPcs =>
              /\ hInv[k].speedsBlobUrl = << >>
              /\ \A b \in blobs.speeds : b.by # hInv[k].id

\* C26: a process starts with a stale title cache, whatever routes.json
\* holds: in the first cycle of a process, until its title call is made,
\* the cache is not fresh, so that call sends the routeList request.
C26_CacheStaleAfterStart ==
    (~handler /\ pc \in {"v_fetch", "v_text"}) =>
        ~AgeBelowTTL(routeTitlesCache, clock)

(***************************************************************************)
(* The collector started with any of the argument specimens.               *)
(***************************************************************************)
UsageStart == \E args \in Argvs : StartWith(args)
UsageNext ==
    \/ UsageStart
    \/ VehicleResponse
    \/ VehicleBody
    \/ TitlesResponse
    \/ TitlesBody
    \/ Load
    \/ Save
    \/ CycleEnd
    \/ TimerFires
    \/ Sigint
    \/ Restart
    \/ Tick
SpecUsage == Init /\ [][UsageNext]_vars

\* The argument is not the text of a number, or of one that is not positive.
IsNumber(string) == IsFinite(ToNumber(Trim(string)))
BadDurationArg(args) ==
    /\ Len(args) > 0
    /\ IsNumber(args[1]) =>
          LET n == ToNumber(Trim(args[1])) IN n.neg \/ n.mag = 0

\* C27: started with an argument that is not numeric or not positive, the
\* script exits with status 1 in its first step, with no request sent and
\* no partition and no routes.json read or written; started without an
\* argument it runs for 30 days.
C27_BadDurationIsFatal ==
    [][\A args \in Argvs :
          StartWith(args) =>
              /\ BadDurationArg(args) =>
                    /\ pc' = "exited"
                    /\ exitCode' = 1
                    /\ response' = response
                    /\ resp' = resp
                    /\ lastLoad' = lastLoad
                    /\ routeTitlesCache' = routeTitlesCache
                    /\ cacheFiles' = cacheFiles
                    /\ routesFile' = routesFile
              /\ Len(args) = 0 => durationDays' = 30
    ]_vars

\* The blobs a call stored: the pathnames, as the urls put returned.
LocationsOf(store, id) == {<<b.pathname>> : b \in {c \in store : c.by = id}}

\* C28: the response to an authorized call, whether it collected, found
\* no data or failed to store, has the keys success, timestamp and
\* recordsCollected in its body, and carries the location of every blob
\* the call stored.
C28_ResponseIsStructuredReport ==
    \A k \in DOMAIN hInv :
        (hInv[k].pc = "done" /\ hInv[k].response.status # 401) =>
            /\ {"success", "timestamp", "recordsCollected"} \subseteq hInv[k].response.keys
            /\ LocationsOf(blobs.speeds, hInv[k].id) \subseteq {hInv[k].response.speedsBlobUrl}
            /\ LocationsOf(blobs.routes, hInv[k].id) \subseteq {hInv[k].response.routesBlobUrl}

(***************************************************************************)
(* The requests of a cycle, as the claims speak of them.                   *)
(***************************************************************************)
\* The step sends a vehicleLocations request.
VehicleFetchIssued == response # "pending" /\ response' = "pending"
\* A request is sent once in a cycle.  Standalone: the vehicleLocations
\* request by the step that begins a cycle, the routeList request by the
\* title call of a cycle that has sent none, and a failed fetch ends the
\* call it belongs to.  Endpoint: a call comes to its vehicle fetch from
\* the authentication only, to its routeList fetch from the listing only,
\* and a vehicle fetch that gives no records ends the call.
OneRequestOfEachKind ==
    /\ VehicleFetchIssued => cycles' = cycles + 1
    /\ cycles' = cycles + 1 => VehicleFetchIssued
    /\ RouteListFetchIssued => TitlesCalled /\ resp = "none"
    /\ (pc \in {"v_fetch", "v_text"} /\ response' \in FetchFailureKinds) =>
          pc' = "cycle_end" /\ records' = << >>
    /\ RouteListFetchFails => pc' \in {"load", "cycle_end"} /\ resp' # "pending"
    /\ \A k \in DOMAIN hInv :
          /\ (hInv'[k].pc = "fetch" /\ hInv[k].pc # "fetch") =>
                hInv[k].pc \in {"idle", "done", "verify"}
          /\ (hInv'[k].pc = "route_fetch" /\ hInv[k].pc # "route_fetch") =>
                hInv[k].pc = "list"
          /\ (FetchReturnsTo(k) /\ Len(hInv'[k].records) = 0) => hInv'[k].pc = "done"
          /\ (hInv[k].pc = "route_fetch" /\ hInv'[k].pc = "done") =>
                hInv'[k].response.routesBlobUrl = << >>

\* C29 as stated: a request is sent once in a cycle, and a request that
\* fails gives an empty result: no records, no titles.
C29_FailedRequestYieldsEmpty ==
    [][/\ OneRequestOfEachKind
       /\ RouteListFetchFails => titlesReturned' = NoTitles
    ]_vars

\* C29, amended: a request is sent once in a cycle; a vehicleLocations
\* request that fails gives no records, and a routeList request that fails
\* gives the titles cached before it, none when nothing was cached.
C29_FailedRequestNotRetried ==
    [][/\ OneRequestOfEachKind
       /\ RouteListFetchFails => titlesReturned' = MappingOf(routeTitlesCache)
    ]_vars

\* In a later cycle the vehicle fetch succeeded and the one routeList
\* request failed: the title call returned the titles cached earlier.
C29_Witness ==
    /\ cycles >= 2
    /\ pc \in {"load", "cycle_end"}
    /\ response = "ok"
    /\ resp \in FetchFailureKinds
    /\ titlesReturned # NoTitles
    /\ titlesReturned = MappingOf(routeTitlesCache)

\* The step calls loadCache: at the start of main, in collectSample, after
\* the first collectSample, before the final statistics.
LoadCalled ==
    \/ pc = "init" /\ pc' = "v_fetch"
    \/ pc = "load" /\ pc' = "save"
    \/ pc = "cycle_end" /\ pc' = "sleep" /\ ~handler
    \/ pc \in {"cycle_end", "sleep"} /\ pc' = "exited" /\ exitCode' = 0

\* C30: a loadCache call returns to its caller whatever it finds, and
\* leaves the partitions as they are.  When today's partition does not
\* exist it returns the empty sequence, the partition still does not
\* exist, and nothing is logged about it; when the partition cannot be
\* read or decoded it logs the error and returns the empty sequence.
C30_LoadReturnsEmptyOnFailure ==
    [][LoadCalled =>
          /\ lastLoad'.completion = "return"
          /\ cacheFiles' = cacheFiles
          /\ \E d \in {getTodaysCacheFile(clock)} :
                IF d \notin DOMAIN cacheFiles
                THEN /\ lastLoad'.bytes = "missing"
                     /\ lastLoad'.value = << >>
                     /\ d \notin DOMAIN cacheFiles'
                     /\ "Error loading cache, starting fresh" \notin log'
                ELSE /\ lastLoad'.bytes \in {"unreadable", "corrupt", "ok"}
                     /\ cacheFiles[d].state = "corrupt" => lastLoad'.bytes # "ok"
                     /\ lastLoad'.bytes \in {"unreadable", "corrupt"} =>
                           /\ lastLoad'.value = << >>
                           /\ "Error loading cache, starting fresh" \in log'
    ]_vars

\* collectSample loaded a partition that holds records and could not be
\* read: the error was logged and the cache is the batch alone.
C30_Witness ==
    /\ pc = "save"
    /\ lastLoad.bytes = "unreadable"
    /\ lastLoad.completion = "return"
    /\ "Error loading cache, starting fresh" \in log
    /\ cache = records
    /\ \E d \in DOMAIN cacheFiles : ContentOf(cacheFiles, d) # << >>

(***************************************************************************)
(* The time slice of a partition, as the claims speak of it.               *)
(***************************************************************************)
\* The UTC date of a record's timestampMs, and the name of the blob its
\* date and hour-minute give.
DateOfRecord(rec) == Today(rec[1] \div DAY_MS, rec[1] % DAY_MS)
SliceOfRecord(rec) == SpeedsFilename(dateStr(rec[1]), timeStr(rec[1]))

\* C31: every record of a daily partition has the UTC date of the
\* partition's key, and every record of a blob has the UTC date and
\* hour-minute of the blob's name.
C31_RecordsInOwnSlice ==
    /\ \A d \in DOMAIN cacheFiles :
          \A rec \in SetOf(ContentOf(cacheFiles, d)) : DateOfRecord(rec) = d
    /\ \A b \in blobs.speeds :
          \A rec \in SetOf(unpack(b.body).value) : SliceOfRecord(rec) = b.pathname.name

(***************************************************************************)
(* collectSample reads the clock in loadCache (line 170) and again in      *)
(* saveCache (line 187): time also passes between the two file accesses,   *)
(* by the same bounded single milliseconds as during a request.            *)
(***************************************************************************)
TickInCycle ==
    /\ pc = "save"
    /\ ticks < MaxTicks
    /\ ticks' = ticks + 1
    /\ clock' = clock + 1
    /\ UNCHANGED <<cycles, restarts, pc, handler, isRunning, exitCode, durationDays,
                   startTimeMs, timerDue, routeTitlesCache, nowMs, routeData, rtNow,
                   titlesReturned, records, cache, lastLoad, log, cacheFiles, routesFile, response, resp, lastSave, outsideDriver>>
ClockNext == Next \/ TickInCycle
SpecClock == Init /\ [][ClockNext]_vars

\* C32: no record is held by two daily partitions.
C32_OnePartitionPerRecord ==
    \A d1 \in DOMAIN cacheFiles, d2 \in DOMAIN cacheFiles :
        d1 # d2 =>
            SetOf(ContentOf(cacheFiles, d1)) \cap SetOf(ContentOf(cacheFiles, d2)) = {}

\* C33: while the route title cache is fresh, routes.json holds the cached
\* mapping.
C33_FreshCacheIsPersisted ==
    AgeBelowTTL(routeTitlesCache, clock) =>
        /\ routesFile.state = "ok"
        /\ LookupOf(routesFile) = MappingOf(routeTitlesCache)

\* C34: the instant the budget is measured from, startTimeMs, is not before
\* the start of the process (the nowMs of its first cycle, read in the
\* synchronous start of main), and the loop ends with 'Target duration
\* reached' only when durationDays whole days have passed since that
\* instant.
C34_BudgetCountsFromProcessStart ==
    [][/\ (pc = "cycle_end" /\ ~handler /\ handler') => startTimeMs' >= nowMs
       /\ (pc = "cycle_end" /\ "Target duration reached" \in log') =>
             (clock - startTimeMs) \div DAY_MS >= durationDays
    ]_vars

\* The SIGINT listener has run: isRunning is false.
CancellationFlagSet == handler /\ ~isRunning

\* C35: once the listener has cleared isRunning, no step starts a cycle;
\* the end of the wait and the end of the cycle in flight both lead out of
\* the loop to the end of the process, and the process ends with status 0.
C35_NoCycleAfterCancellation ==
    [][CancellationFlagSet =>
          /\ cycles' = cycles
          /\ (pc \in {"sleep", "cycle_end"} /\ pc' # pc) => pc' = "exited"
          /\ (pc # "exited" /\ pc' = "exited") => exitCode' = 0
    ]_vars

(***************************************************************************)
(* The report of the endpoint, as the claims speak of it.                  *)
(***************************************************************************)
\* The step in which call k returns its report (other than a 401).
Reports(k) ==
    /\ hInv[k].pc \notin {"idle", "done"}
    /\ hInv'[k].pc = "done"
    /\ hInv'[k].response.status # 401
\* After the step the store holds a blob written by call k whose content
\* is the non-empty batch of the call.
BatchWritten(k) ==
    /\ hInv[k].records # << >>
    /\ \E b \in blobs'.speeds :
          /\ b.by = hInv[k].id
          /\ unpack(b.body).value = hInv[k].records

\* C36: the report of a call has success = true exactly when the store
\* holds the blob the call wrote with its non-empty batch; an upload of the
\* batch that fails ends the call with a 500 and success = false, with no
\* route list requested and no route blob written; and once the batch is
\* uploaded, every way the route lookup goes (listing fails, a lookup is
\* there, the fetch fails or is empty, the upload fails or succeeds) ends in
\* a 200 with success = true.
C36_SuccessIffBatchWritten ==
    [][\A k \in DOMAIN hInv :
          /\ Reports(k) => (hInv'[k].response.success <=> BatchWritten(k))
          /\ (hInv[k].pc = "put_speeds" /\ hInv'[k].pc # "put_speeds"
                /\ hInv'[k].put # "stored") =>
                /\ Reports(k)
                /\ hInv'[k].response.status = 500
                /\ ~hInv'[k].response.success
                /\ hInv'[k].response.routesBlobUrl = << >>
                /\ blobs' = blobs
          /\ (hInv[k].pc \in {"list", "route_fetch", "put_routes"}
                /\ hInv'[k].pc # hInv[k].pc) =>
                \/ hInv'[k].pc \in {"route_fetch", "put_routes"}
                \/ /\ Reports(k)
                   /\ hInv'[k].response.status = 200
                   /\ hInv'[k].response.success
                   /\ hInv'[k].response.speedsBlobUrl = hInv[k].speedsBlobUrl
                   /\ hInv[k].speedsBlobUrl # << >>
    ]_vars

\* A call uploaded its batch, the upload of the route lookup failed, and
\* the report is a success without a route blob; another call's upload of
\* its batch failed and its report is the 500.
C36_Witness ==
    \E k \in DOMAIN hInv, j \in DOMAIN hInv :
        /\ hInv[k].pc = "done"
        /\ hInv[k].response.success
        /\ hInv[k].response.status = 200
        /\ hInv[k].response.routesBlobUrl = << >>
        /\ LocationsOf(blobs.speeds, hInv[k].id) # {}
        /\ LocationsOf(blobs.routes, hInv[k].id) = {}
        /\ hInv[j].pc = "done"
        /\ hInv[j].put \in {"error", "refused"}
        /\ hInv[j].response.status = 500
        /\ LocationsOf(blobs.speeds, hInv[j].id) = {}

\* The schedules of the account that call the collection endpoint every
\* minute: the destination is the configured url or has its path.
ForCollectionEndpoint(s) ==
    \/ s \in matchingSchedules({s})
    \/ s.destination = EndpointUrl(qEnv)
PerMinuteSchedules(schedules) ==
    {s \in schedules : ForCollectionEndpoint(s) /\ s.cron = EveryMinute}

\* C37: a run of the schedule deployment script has deleted every schedule
\* whose destination has /api/collect-sample when it sends the create, and
\* when a run ends with success, whatever the runs before it, the account
\* holds exactly one per-minute schedule for the collection endpoint.
C37_OneEndpointSchedule ==
    [][ /\ (qPc # "create" /\ qPc' = "create")
            => matchingSchedules(qSchedules') = {}
        /\ (qPc = "create" /\ qExit' = 0)
            => Cardinality(PerMinuteSchedules(qSchedules')) = 1 ]_vars

====
